---- MODULE Spec2Model ----
(***************************************************************************)
(* Credential store and API proxy of the Google Ads dashboard backend      *)
(* (src/backend/server.js), with the environment it runs in: the           *)
(* credentials file on disk, the configured encryption key and the         *)
(* upstream Google Ads API.                                                *)
(*                                                                         *)
(* Sizes are scaled down so that the state space is finite: a byte has     *)
(* Radix * Radix values (Radix models the 16 hex digits), a cipher block   *)
(* has BlockSize bytes (models the 16 bytes of AES), and the JSON text of  *)
(* a record is a string over structural and value characters.              *)
(***************************************************************************)
EXTENDS Integers, Sequences, FiniteSets, Bags, TLC

(***************************************************************************)
(* Bounds of the model.                                                    *)
(***************************************************************************)
\* requests that may be waiting on an upstream call at the same time
MaxInflight == 2
\* proxied requests of a run in which every request is numbered
MaxRequests == 3
\* clients the constructor of ClientsService generates (40 in the code)
MockClients == 2
\* milliseconds the clock runs through
MaxClock == 2
\* longest list of clients
MaxClients == 3
\* accounts one fetch returns at most
MaxAccounts == 2
\* external modifications of the credentials file in one behaviour
MaxTamper == 1

(***************************************************************************)
(* Bytes, hex digits and characters.                                       *)
(***************************************************************************)
\* number of digit values of the 'hex' encoding
Radix == 2
ByteRange == Radix * Radix
Byte == 0 .. (ByteRange - 1)
HexDigit == 0 .. (Radix - 1)
\* a character of the file that is no hex digit
BadDigit == Radix
\* bytes of the cipher block
BlockSize == 2
\* bytes createCipheriv demands of an aes-256 key
KeyLen == 32
\* characters of the built-in default key (server.js:41)
DefaultKeyChars == 51

\* structural characters of the serialized record and the characters of values
Sep == 0
End == 3
ValChar == {1, 2}

\* a property that is absent from an object (undefined)
Undef == << -1 >>
\* JavaScript null
Null == [null |-> TRUE]

Ok(v) == [ok |-> TRUE, v |-> v]
Throw(e) == [ok |-> FALSE, v |-> e]

\* !x for a string-valued property: undefined and "" are falsy
Falsy(x) == x = Undef \/ x = << >>

(***************************************************************************)
(* Credentials records.                                                    *)
(***************************************************************************)
Creds(a, b, c, d, m) ==
    [clientId |-> a, clientSecret |-> b, developerToken |-> c,
     refreshToken |-> d, managerId |-> m]

RecA == Creds(<<1>>, <<1>>, <<1>>, <<1>>, Undef)
RecB == Creds(<<2>>, <<2>>, <<2>>, <<2>>, <<1>>)
RecC == Creds(<<1, 2>>, <<2>>, <<1>>, <<2>>, Undef)

\* the record getCredentials() of the server-backed service returns in place
\* of the stored one: 'stored_on_server' four times
Placeholder == Creds(<<2, 1>>, <<2, 1>>, <<2, 1>>, <<2, 1>>, Undef)

\* request bodies with every required property truthy
ValidBodies == {RecA, RecB}
\* request bodies that lack a required property or hold it empty
InvalidBodies ==
    { [RecA EXCEPT !.clientId = Undef], [RecA EXCEPT !.clientSecret = << >>],
      [RecB EXCEPT !.developerToken = Undef], [RecB EXCEPT !.refreshToken = << >>],
      Creds(Undef, Undef, Undef, Undef, Undef) }
Bodies == ValidBodies \cup InvalidBodies

\* the records handed to saveCredentials directly
StoreRecords == {RecA, RecB, RecC, Creds(<<2>>, << >>, <<1>>, <<2>>, <<2, 1>>)}

(***************************************************************************)
(* Buffer <-> hex string.                                                  *)
(***************************************************************************)
RECURSIVE ToHex(_)
\* Buffer.toString('hex'): two digits per byte
ToHex(bytes) ==
    IF bytes = << >> THEN << >>
    ELSE << Head(bytes) \div Radix, Head(bytes) % Radix >> \o ToHex(Tail(bytes))

RECURSIVE FromHex(_)
\* Buffer.from(str, 'hex'): decodes pairs of digits and stops, without an
\* error, at the first pair that is incomplete or holds a non-hex character
FromHex(digits) ==
    IF Len(digits) < 2 THEN << >>
    ELSE IF digits[1] \notin HexDigit \/ digits[2] \notin HexDigit THEN << >>
    ELSE << digits[1] * Radix + digits[2] >> \o FromHex(SubSeq(digits, 3, Len(digits)))

(***************************************************************************)
(* JSON text of a credentials record.                                      *)
(***************************************************************************)
\* JSON.stringify(credentials): every property present, in order; an
\* undefined managerId is left out
Stringify(c) ==
    << Sep >> \o c.clientId \o << Sep >> \o c.clientSecret \o
    << Sep >> \o c.developerToken \o << Sep >> \o c.refreshToken \o
    (IF c.managerId = Undef THEN << >> ELSE << Sep >> \o c.managerId) \o << End >>

RECURSIVE SplitFields(_)
\* the values of a text that starts with Sep: the runs between separators
SplitFields(s) ==
    IF s = << >> THEN << >>
    ELSE LET rest == Tail(s)
             stops == {i \in 1 .. Len(rest) : rest[i] = Sep}
             n == IF stops = {} THEN Len(rest)
                  ELSE (CHOOSE i \in stops : \A j \in stops : i <= j) - 1
         IN << SubSeq(rest, 1, n) >> \o SplitFields(SubSeq(rest, n + 1, Len(rest)))

\* JSON.parse(text): the record, or a SyntaxError when the text is not the
\* serialization of a record
Parse(s) ==
    IF Len(s) < 2 \/ s[Len(s)] # End \/ s[1] # Sep THEN Throw("SyntaxError")
    ELSE LET body == SubSeq(s, 1, Len(s) - 1) IN
         IF \E i \in 1 .. Len(body) : body[i] \notin (ValChar \cup {Sep})
         THEN Throw("SyntaxError")
         ELSE LET f == SplitFields(body) IN
              IF Len(f) \notin {4, 5} THEN Throw("SyntaxError")
              ELSE Ok([clientId |-> f[1], clientSecret |-> f[2],
                       developerToken |-> f[3], refreshToken |-> f[4],
                       managerId |-> IF Len(f) = 5 THEN f[5] ELSE Undef])

(***************************************************************************)
(* The block cipher in CBC mode.                                           *)
(***************************************************************************)
RECURSIVE BitXor(_, _)
BitXor(a, b) ==
    IF a = 0 /\ b = 0 THEN 0
    ELSE ((a + b) % 2) + 2 * BitXor(a \div 2, b \div 2)

XorBlock(x, y) == [i \in 1 .. BlockSize |-> BitXor(x[i], y[i])]

RECURSIVE BlockToNum(_)
BlockToNum(b) ==
    IF b = << >> THEN 0
    ELSE b[Len(b)] + ByteRange * BlockToNum(SubSeq(b, 1, Len(b) - 1))

RECURSIVE Pow(_, _)
Pow(x, n) == IF n = 0 THEN 1 ELSE x * Pow(x, n - 1)

NumBlocks == Pow(ByteRange, BlockSize)

NumToBlock(n) ==
    [i \in 1 .. BlockSize |-> (n \div Pow(ByteRange, BlockSize - i)) % ByteRange]

\* the keyed permutation of one block and its inverse
EncBlock(k, b) == NumToBlock((5 * BlockToNum(b) + k) % NumBlocks)
\* the inverse permutation, tabulated per key
InverseTable ==
    [k \in 0 .. (NumBlocks - 1) |->
        [m \in 0 .. (NumBlocks - 1) |->
            CHOOSE n \in 0 .. (NumBlocks - 1) : (5 * n + k) % NumBlocks = m]]
DecBlock(k, b) == NumToBlock(InverseTable[k][BlockToNum(b)])

\* the padding cipher.final() appends: 1..BlockSize bytes, each their count
Pad(p) ==
    LET n == BlockSize - (Len(p) % BlockSize)
    IN p \o [i \in 1 .. n |-> n]

RECURSIVE CbcEncrypt(_, _, _)
CbcEncrypt(k, prev, p) ==
    IF p = << >> THEN << >>
    ELSE LET c == EncBlock(k, XorBlock(SubSeq(p, 1, BlockSize), prev))
         IN c \o CbcEncrypt(k, c, SubSeq(p, BlockSize + 1, Len(p)))

RECURSIVE CbcDecrypt(_, _, _)
CbcDecrypt(k, prev, c) ==
    IF c = << >> THEN << >>
    ELSE LET b == SubSeq(c, 1, BlockSize)
         IN XorBlock(DecBlock(k, b), prev) \o
            CbcDecrypt(k, b, SubSeq(c, BlockSize + 1, Len(c)))

\* the padding check of decipher.final()
Unpad(p) ==
    LET n == p[Len(p)] IN
    IF n \notin 1 .. BlockSize \/ \E i \in 1 .. n : p[Len(p) + 1 - i] # n
    THEN Throw("bad decrypt")
    ELSE Ok(SubSeq(p, 1, Len(p) - n))

\* decipher.update(text) followed by decipher.final(): throws when the text
\* is empty or not a whole number of blocks, or when the padding is bad
Decipher(k, iv, text) ==
    IF Len(text) = 0 \/ Len(text) % BlockSize # 0
    THEN Throw("wrong final block length")
    ELSE Unpad(CbcDecrypt(k, iv, text))

\* cipher.update(JSON.stringify(data)) followed by cipher.final(), in hex
CipherText(k, iv, data) == ToHex(CbcEncrypt(k, iv, Pad(Stringify(data))))

\* CipherText of the records the model saves, under every key and iv, as a
\* table: merged with the empty function it is stored as its values, so a
\* ciphertext is computed once
CipherTable ==
    [t \in (0 .. (NumBlocks - 1)) \X [1 .. BlockSize -> Byte]
            \X (ValidBodies \cup StoreRecords)
        |-> CipherText(t[1], t[2], t[3])] @@ << >>

(***************************************************************************)
(* State.                                                                  *)
(***************************************************************************)
VARIABLES
    envKey,     \* process.env.ENCRYPTION_KEY as configured at start
    file,       \* the content of credentials.json
    inflight,   \* the handlers suspended at an await (a bag)
    last,       \* the response sent most recently
    lastWrite,  \* the record of the write that completed last (history)
    dirty,      \* the file was changed from outside since that write (history)
    tampers,    \* the number of changes from outside so far
    loaded,     \* what the most recent direct loadCredentials() returned
    storage,    \* the item google_ads_credentials of the browser's localStorage
    browser,    \* the most recent call of the browser's credentials service
    arrivals,   \* the proxied requests the clients still send, or Unbounded
    gate,       \* what the cors middleware did with the most recent request
    service,    \* the fields of the frontend's GoogleAdsService and its clients
    fetched,    \* how the most recent data method of that service settled
    app,        \* the state of the App component and the userRole item
    clients,    \* ClientsService.clients
    called,     \* the most recent call of ClientsService and what it returned
    listed,     \* the clients of ClientList after its most recent merge
    now         \* the millisecond Date.now() reads

vars == << envKey, file, inflight, last, lastWrite, dirty, tampers, loaded,
           storage, browser, arrivals, gate,
           service, fetched, app, clients, called, listed, now >>

(***************************************************************************)
(* The encryption key (server.js:41).                                      *)
(***************************************************************************)
\* A configured key is described by its length in characters and by how many
\* of its first KeyLen characters take two bytes in UTF-8; chars = 0 is the
\* unset (or empty) variable.  The server is run with the variable unset,
\* with a key of exactly KeyLen one-byte characters, and with a longer key
\* that holds a two-byte character.
KeyConfigs ==
    { [chars |-> 0, wide |-> 0], [chars |-> 32, wide |-> 0],
      [chars |-> 40, wide |-> 1] }

Min(a, b) == IF a <= b THEN a ELSE b

\* (env || default).slice(0, 32).padEnd(32, '0'), as Buffer.from() sees it
ENCRYPTION_KEY(env) ==
    LET src == IF env.chars = 0 THEN [chars |-> DefaultKeyChars, wide |-> 0] ELSE env
        kept == Min(src.chars, KeyLen)
    IN [chars |-> kept + (KeyLen - kept),
        bytes |-> kept + src.wide + (KeyLen - kept),
        num |-> (src.chars + 3 * src.wide) % NumBlocks]

\* crypto.createCipheriv('aes-256-cbc', key, iv): the checks on key and iv
createCipheriv(key, iv) ==
    IF key.bytes # KeyLen THEN Throw("Invalid key length")
    ELSE IF Len(iv) # BlockSize THEN Throw("Invalid initialization vector")
    ELSE Ok(key.num)

\* crypto.createDecipheriv('aes-256-cbc', key, iv): the same checks
createDecipheriv(key, iv) ==
    IF key.bytes # KeyLen THEN Throw("Invalid key length")
    ELSE IF Len(iv) # BlockSize THEN Throw("Invalid initialization vector")
    ELSE Ok(key.num)

(***************************************************************************)
(* Encryption utilities (server.js:44-64).                                 *)
(***************************************************************************)
IVs == [1 .. BlockSize -> Byte]

\* encryptData with the bug of writing a second random iv into the result
encryptDataOtherIv(data, iv) ==
    LET cipher == createCipheriv(ENCRYPTION_KEY(envKey), iv) IN
    IF ~cipher.ok THEN cipher
    ELSE Ok([iv |-> ToHex([i \in 1 .. BlockSize |-> 0]),
             data |-> CipherText(cipher.v, iv, data)])

\* encryptData(data), with iv the result of crypto.randomBytes
encryptData(data, iv) ==
    LET cipher == createCipheriv(ENCRYPTION_KEY(envKey), iv) IN
    IF ~cipher.ok THEN cipher
    ELSE Ok([iv |-> ToHex(iv),
             data |-> IF << cipher.v, iv, data >> \in DOMAIN CipherTable
                      THEN CipherTable[<< cipher.v, iv, data >>]
                      ELSE CipherText(cipher.v, iv, data)])

\* the body of decryptData's try block
DecryptSteps(encryptedData) ==
    IF encryptedData = Null THEN Throw("TypeError")
    ELSE IF encryptedData.iv = Undef \/ encryptedData.data = Undef THEN Throw("TypeError")
    ELSE LET iv == FromHex(encryptedData.iv)
             encryptedText == FromHex(encryptedData.data)
             decipher == createDecipheriv(ENCRYPTION_KEY(envKey), iv)
         IN IF ~decipher.ok THEN decipher
            ELSE LET decrypted == Decipher(decipher.v, iv, encryptedText)
                 IN IF ~decrypted.ok THEN decrypted ELSE Parse(decrypted.v)

\* decryptData without its try/catch: what was thrown reaches the caller
decryptDataNoCatch(encryptedData) ==
    LET r == DecryptSteps(encryptedData)
    IN IF r.ok THEN r.v ELSE r

\* decryptData(encryptedData): the record, or null when anything threw
decryptData(encryptedData) ==
    LET r == DecryptSteps(encryptedData)
    IN IF r.ok THEN r.v ELSE Null

(***************************************************************************)
(* The credentials file (server.js:39, 67-90).                             *)
(***************************************************************************)
Absent == [kind |-> "absent"]
\* a file whose text is no JSON
TextFile == [kind |-> "text"]
\* a file holding the JSON text null
NullFile == [kind |-> "null"]
BlobFile(e) == [kind |-> "obj", iv |-> e.iv, data |-> e.data]

\* JSON.parse(fs.readFileSync(CREDENTIALS_FILE))
ParseFile(f) ==
    IF f.kind = "text" THEN Throw("SyntaxError")
    ELSE IF f.kind = "null" THEN Ok(Null)
    ELSE Ok([iv |-> f.iv, data |-> f.data])

\* how a call of fs.writeFileSync or fs.unlinkSync ends: it returns, or the
\* file system refuses it and it throws with the file as it was
FsResults == {"ok", "EACCES"}

\* saveCredentials with the bug of reporting success without writing
saveCredentialsNoWrite(credentials, iv, fs) ==
    LET encrypted == encryptData(credentials, iv) IN
    IF ~encrypted.ok THEN [ret |-> FALSE, file |-> file]
    ELSE [ret |-> TRUE, file |-> file]

\* saveCredentials with the bug of updating the stored record property by
\* property: a stored clientId survives the write
saveCredentialsMerge(credentials, iv, fs) ==
    LET old == IF file.kind = "obj" THEN decryptData([iv |-> file.iv, data |-> file.data])
               ELSE Null
        merged == IF old = Null THEN credentials
                  ELSE [credentials EXCEPT !.clientId = old.clientId]
        encrypted == encryptData(merged, iv)
    IN IF ~encrypted.ok THEN [ret |-> FALSE, file |-> file]
       ELSE IF fs # "ok" THEN [ret |-> FALSE, file |-> file]
       ELSE [ret |-> TRUE, file |-> BlobFile(encrypted.v)]

\* saveCredentials(credentials): what it returns and the file it leaves; iv
\* is what randomBytes yields and fs how writeFileSync ends
saveCredentials(credentials, iv, fs) ==
    LET encrypted == encryptData(credentials, iv) IN
    IF ~encrypted.ok THEN [ret |-> FALSE, file |-> file]
    ELSE IF fs # "ok" THEN [ret |-> FALSE, file |-> file]
    ELSE [ret |-> TRUE, file |-> BlobFile(encrypted.v)]

\* loadCredentials with the bug of answering a built-in record when there is
\* no file
loadCredentialsDefault(f) ==
    IF f.kind = "absent" THEN [clientId |-> <<1>>, clientSecret |-> <<1>>,
                               developerToken |-> <<1>>, refreshToken |-> <<1>>,
                               managerId |-> Undef]
    ELSE LET encrypted == ParseFile(f)
         IN IF ~encrypted.ok THEN Null ELSE decryptData(encrypted.v)

\* loadCredentials()
loadCredentials(f) ==
    IF f.kind = "absent" THEN Null
    ELSE LET encrypted == ParseFile(f)
         IN IF ~encrypted.ok THEN Null ELSE decryptData(encrypted.v)

(***************************************************************************)
(* Requests and responses.                                                 *)
(***************************************************************************)
\* the values randomBytes yields in the handlers
SomeIVs == {[i \in 1 .. BlockSize |-> 0], [i \in 1 .. BlockSize |-> i % ByteRange]}

\* :accountId of the metrics route
AccountIds == {<<8>>, <<9>>}

\* how the upstream call of a handler ends: it resolves with the answer the
\* handler expects, it resolves with undefined, or it rejects because the
\* refresh token could not be exchanged or because the API refused
Outcomes == {"ok", "malformed", "authFail", "apiFail"}
\* the outcomes in which the await returns
Resolved == {"ok", "malformed"}
\* whether the library's constructors throw
LibResults == {"ok", "clientThrows", "customerThrows"}

\* resource_names of listAccessibleCustomers
ResourceNames == {[prefix |-> "customers", id |-> a] : a \in AccountIds}

\* error.message in the catch block of a handler
ErrorMessage(outcome) ==
    IF outcome = "authFail" THEN "invalid_grant"
    ELSE IF outcome = "malformed" THEN "TypeError"
    ELSE "upstream error"

NoResponse == [kind |-> "none", status |-> 0, upstream |-> FALSE, outcome |-> "none"]

\* a response: the route, the status, the JSON body, and (history) whether
\* the handler issued its upstream call and how that call ended
Response(kind, status, body, upstream, outcome) ==
    [kind |-> kind, status |-> status, body |-> body,
     upstream |-> upstream, outcome |-> outcome]

Failure(message) == [success |-> FALSE, message |-> message]

\* the clients send requests without end
Unbounded == -1
\* the numbers that tell the requests of a bounded run apart
Tickets == {Unbounded} \cup (1..MaxRequests)

\* a handler suspended at its await; ticket is the number of the request
Awaiting(kind, credentials, accountId) ==
    [kind |-> kind, credentials |-> credentials, accountId |-> accountId,
     ticket |-> arrivals]

\* a request arrives at a proxied endpoint
Arrive ==
    /\ arrivals # 0
    /\ arrivals' = IF arrivals = Unbounded THEN Unbounded ELSE arrivals - 1

Suspend(r) == inflight' = inflight (+) SetToBag({r})
Resume(r) == inflight' = inflight (-) SetToBag({r})
CanSuspend == BagCardinality(inflight) < MaxInflight

\* the validation with the refresh token forgotten
MissingRequiredButRefresh(credentials) ==
    \/ Falsy(credentials.clientId) \/ Falsy(credentials.clientSecret)
    \/ Falsy(credentials.developerToken)

\* the validation of POST /api/credentials and POST /api/test-connection
MissingRequired(credentials) ==
    \/ Falsy(credentials.clientId) \/ Falsy(credentials.clientSecret)
    \/ Falsy(credentials.developerToken) \/ Falsy(credentials.refreshToken)

\* initializeGoogleAdsClient(credentials): the client, or null
initializeGoogleAdsClient(credentials, lib) ==
    IF lib = "clientThrows" THEN Null
    ELSE [client_id |-> credentials.clientId,
          client_secret |-> credentials.clientSecret,
          developer_token |-> credentials.developerToken]

\* getCustomer(client, credentials): the customer, or null
getCustomer(client, credentials, lib) ==
    IF lib = "customerThrows" THEN Null
    ELSE [customer_id |-> IF Falsy(credentials.managerId) THEN << >>
                          ELSE credentials.managerId,
          refresh_token |-> credentials.refreshToken,
          login_customer_id |-> IF Falsy(credentials.managerId) THEN << >>
                                ELSE credentials.managerId]

\* the steps between the credentials and the await, shared by the three
\* proxied handlers: the early 500 response, or Null when the call is issued
ClientFailure(kind, credentials, lib) ==
    LET client == initializeGoogleAdsClient(credentials, lib) IN
    IF client = Null
    THEN Response(kind, 500, Failure("Failed to initialize Google Ads client"),
                  FALSE, "none")
    ELSE IF getCustomer(client, credentials, lib) = Null
    THEN Response(kind, 500, Failure("Failed to get customer instance"), FALSE, "none")
    ELSE Null

\* new GoogleAdsService(), new CredentialsService(), new RealGoogleAdsApiClient()
NewService ==
    [credentials |-> Null, isLoaded |-> FALSE, cached |-> Null,
     isConnected |-> FALSE, lastConnectionCheck |-> "null",
     selectedAccountId |-> << >>]

\* no data method has been called yet
NotFetched ==
    [method |-> "none", period |-> "none", http |-> "none", settled |-> "none",
     dataset |-> [source |-> "none"], requests |-> 0]

\* the App before its first mount; userRole is the localStorage item
NotMounted ==
    [isAuthenticated |-> FALSE, isLoading |-> TRUE, userRole |-> "none",
     event |-> "none"]

\* ids of clients: client-1 .. client-<MockClients> of the constructor, then
\* client-<Date.now()>, written MockClients + now
ClientIds == 1 .. (MockClients + MaxClock)
\* a client: its id, one field that updateClient changes, the archive flag
Client(id, name, isArchived) == [id |-> id, name |-> name, isArchived |-> isArchived]

\* no method of ClientsService has been called yet
NotCalled == [op |-> "none"]

\* no request has reached the middleware yet
NoRequest == [origin |-> "none", method |-> "none", allowOrigin |-> "none",
              next |-> FALSE]

\* localStorage.getItem(STORAGE_KEY): null, or the string stored
NoItem == [kind |-> "null"]
Item(text) == [kind |-> "string", text |-> text]

\* no call of the browser's credentials service yet
NoCall == [op |-> "none"]

StoreVars == << dirty, tampers, loaded >>
\* the state of the browser
\* the state of the pages of the frontend
PageVars == << app, clients, called, listed, now >>
ClientVars == << storage, browser, service, fetched, PageVars >>

(***************************************************************************)
(* Handlers of src/backend/server.js.                                      *)
(***************************************************************************)
\* GET /api/health
Health ==
    /\ last' = Response("health", 200, [status |-> "ok"], FALSE, "none")
    /\ UNCHANGED << gate, arrivals, envKey, file, inflight, lastWrite, StoreVars, ClientVars >>

\* the response of POST /api/credentials, with (history) the body of the
\* request and how the file system call of a save would end
Posted(b, fs, status, body) ==
    [kind |-> "postCredentials", status |-> status, body |-> body,
     upstream |-> FALSE, outcome |-> "none",
     request |-> b, fs |-> IF MissingRequired(b) THEN "none" ELSE fs]

\* the handler of POST /api/credentials with body b: its response and what
\* it leaves in the store
PostCredentialsHandler(b, iv, fs) ==
    IF MissingRequired(b)
       THEN /\ last' = Posted(b, fs, 400, Failure("Missing required credentials"))
            /\ UNCHANGED << file, lastWrite >>
       ELSE LET saved == saveCredentials(b, iv, fs) IN
            IF ~saved.ret
            THEN /\ last' = Posted(b, fs, 500, Failure("Failed to save credentials"))
                 /\ file' = saved.file
                 /\ UNCHANGED lastWrite
            ELSE /\ last' = Posted(b, fs, 200,
                                   [success |-> TRUE,
                                    message |-> "API credentials saved successfully"])
                 /\ file' = saved.file
                 /\ lastWrite' = b

\* POST /api/credentials with body b
PostCredentials(b, iv, fs) ==
    /\ PostCredentialsHandler(b, iv, fs)
    /\ UNCHANGED << gate, arrivals, envKey, inflight, StoreVars, ClientVars >>

\* POST /api/test-connection with body b, up to its await
TestConnectionStart(b, lib) ==
    /\ CanSuspend
    /\ IF MissingRequired(b)
       THEN /\ last' = Response("testConnection", 400,
                                Failure("Missing required credentials"), FALSE, "none")
            /\ UNCHANGED inflight
       ELSE LET early == ClientFailure("testConnection", b, lib) IN
            IF early # Null
            THEN last' = early /\ UNCHANGED inflight
            ELSE Suspend(Awaiting("testConnection", b, Undef)) /\ UNCHANGED last
    /\ Arrive
    /\ UNCHANGED << gate, envKey, file, lastWrite, StoreVars, ClientVars >>

\* the handler with the bug of saving whatever the upstream call answered
TestConnectionDoneAlwaysSaves(r, outcome, iv, fs) ==
    /\ BagIn(r, inflight)
    /\ r.kind = "testConnection"
    /\ Resume(r)
    /\ LET saved == saveCredentials(r.credentials, iv, fs) IN
       /\ file' = saved.file
       /\ lastWrite' = IF saved.ret THEN r.credentials ELSE lastWrite
    /\ last' = IF outcome = "ok"
               THEN Response("testConnection", 200,
                             [success |-> TRUE,
                              message |-> "Successfully connected to Google Ads API",
                              accounts |-> {[id |-> n.id] : n \in ResourceNames}],
                             TRUE, outcome)
               ELSE Response("testConnection", 500,
                             [success |-> FALSE,
                              message |-> "Failed to connect to Google Ads API",
                              error |-> ErrorMessage(outcome)],
                             TRUE, outcome)
    /\ UNCHANGED << gate, arrivals, envKey, StoreVars, ClientVars >>

\* the handler with the bug of returning the client id it connected with
TestConnectionDoneEchoes(r, outcome, iv, fs) ==
    /\ BagIn(r, inflight)
    /\ r.kind = "testConnection"
    /\ Resume(r)
    /\ IF outcome \in Resolved
       THEN LET saved == saveCredentials(r.credentials, iv, fs) IN
            /\ file' = saved.file
            /\ lastWrite' = IF saved.ret THEN r.credentials ELSE lastWrite
       ELSE UNCHANGED << file, lastWrite >>
    /\ last' = IF outcome = "ok"
               THEN Response("testConnection", 200,
                             [success |-> TRUE,
                              message |-> "Successfully connected to Google Ads API",
                              clientId |-> r.credentials.clientId,
                              accounts |-> {[id |-> n.id] : n \in ResourceNames}],
                             TRUE, outcome)
               ELSE Response("testConnection", 500,
                             [success |-> FALSE,
                              message |-> "Failed to connect to Google Ads API",
                              error |-> ErrorMessage(outcome)],
                             TRUE, outcome)
    /\ UNCHANGED << gate, arrivals, envKey, StoreVars, ClientVars >>

\* POST /api/test-connection after listAccessibleCustomers() has settled:
\* when the await returns the credentials are saved, and then the response is
\* built from the answer, which throws when the answer is undefined
TestConnectionDone(r, outcome, iv, fs) ==
    /\ BagIn(r, inflight)
    /\ r.kind = "testConnection"
    /\ Resume(r)
    /\ IF outcome \in Resolved
       THEN LET saved == saveCredentials(r.credentials, iv, fs) IN
            /\ file' = saved.file
            /\ lastWrite' = IF saved.ret THEN r.credentials ELSE lastWrite
       ELSE UNCHANGED << file, lastWrite >>
    /\ last' = IF outcome = "ok"
               THEN Response("testConnection", 200,
                             [success |-> TRUE,
                              message |-> "Successfully connected to Google Ads API",
                              accounts |-> {[id |-> n.id] : n \in ResourceNames}],
                             TRUE, outcome)
               ELSE Response("testConnection", 500,
                             [success |-> FALSE,
                              message |-> "Failed to connect to Google Ads API",
                              error |-> ErrorMessage(outcome)],
                             TRUE, outcome)
    /\ UNCHANGED << gate, arrivals, envKey, StoreVars, ClientVars >>

\* the handler with the bug of keeping the credentials of a request that is
\* still waiting instead of loading them
AccountsStartReuses ==
    /\ CanSuspend
    /\ LET held == {r.credentials : r \in BagToSet(inflight)}
           credentials == IF held # {} THEN CHOOSE c \in held : TRUE
                          ELSE loadCredentials(file)
       IN
       IF credentials = Null
       THEN /\ last' = Response("accounts", 400,
                                Failure("No API credentials found"), FALSE, "none")
            /\ UNCHANGED inflight
       ELSE \E lib \in LibResults :
            LET early == ClientFailure("accounts", credentials, lib) IN
            IF early # Null
            THEN last' = early /\ UNCHANGED inflight
            ELSE Suspend(Awaiting("accounts", credentials, Undef)) /\ UNCHANGED last
    /\ Arrive
    /\ UNCHANGED << gate, envKey, file, lastWrite, StoreVars, ClientVars >>

\* GET /api/accounts, up to its await
AccountsStart ==
    /\ CanSuspend
    /\ LET credentials == loadCredentials(file) IN
       IF credentials = Null
       THEN /\ last' = Response("accounts", 400,
                                Failure("No API credentials found"), FALSE, "none")
            /\ UNCHANGED inflight
       ELSE \E lib \in LibResults :
            LET early == ClientFailure("accounts", credentials, lib) IN
            IF early # Null
            THEN last' = early /\ UNCHANGED inflight
            ELSE Suspend(Awaiting("accounts", credentials, Undef)) /\ UNCHANGED last
    /\ Arrive
    /\ UNCHANGED << gate, envKey, file, lastWrite, StoreVars, ClientVars >>

\* the accounts handler without its catch block: a rejection ends the
\* handler and no response is sent
AccountsDoneUncaught(r, outcome) ==
    /\ BagIn(r, inflight)
    /\ r.kind = "accounts"
    /\ Resume(r)
    /\ IF outcome = "ok"
       THEN last' = Response("accounts", 200,
                             [success |-> TRUE,
                              accounts |-> {[id |-> n.id, type |-> "google_ads",
                                             status |-> "active"] : n \in ResourceNames}],
                             TRUE, outcome)
       ELSE UNCHANGED last
    /\ UNCHANGED << gate, arrivals, envKey, file, lastWrite, StoreVars, ClientVars >>

\* GET /api/accounts after listAccessibleCustomers() has settled
AccountsDone(r, outcome) ==
    /\ BagIn(r, inflight)
    /\ r.kind = "accounts"
    /\ Resume(r)
    /\ last' = IF outcome = "ok"
               THEN Response("accounts", 200,
                             [success |-> TRUE,
                              accounts |-> {[id |-> n.id, type |-> "google_ads",
                                             status |-> "active"] : n \in ResourceNames}],
                             TRUE, outcome)
               ELSE Response("accounts", 500,
                             [success |-> FALSE,
                              message |-> "Failed to fetch Google Ads accounts",
                              error |-> ErrorMessage(outcome)],
                             TRUE, outcome)
    /\ UNCHANGED << gate, arrivals, envKey, file, lastWrite, StoreVars, ClientVars >>

\* GET /api/metrics/:accountId, up to its await
MetricsStart(accountId) ==
    /\ CanSuspend
    /\ LET credentials == loadCredentials(file) IN
       IF credentials = Null
       THEN /\ last' = Response("metrics", 400,
                                Failure("No API credentials found"), FALSE, "none")
            /\ UNCHANGED inflight
       ELSE \E lib \in LibResults :
            LET early == ClientFailure("metrics", credentials, lib) IN
            IF early # Null
            THEN last' = early /\ UNCHANGED inflight
            ELSE Suspend(Awaiting("metrics", credentials, accountId)) /\ UNCHANGED last
    /\ Arrive
    /\ UNCHANGED << gate, envKey, file, lastWrite, StoreVars, ClientVars >>

\* the handler with the bug of answering empty metrics when the query failed
MetricsDoneSwallows(r, outcome) ==
    /\ BagIn(r, inflight)
    /\ r.kind = "metrics"
    /\ Resume(r)
    /\ last' = Response("metrics", 200,
                        [success |-> TRUE,
                         metrics |->
                             [customer |->
                                 getCustomer(Null, r.credentials, "ok").customer_id]],
                        TRUE, outcome)
    /\ UNCHANGED << gate, arrivals, envKey, file, lastWrite, StoreVars, ClientVars >>

\* GET /api/metrics/:accountId after customer.query() has settled; the
\* customer queried is the one getCustomer built from the credentials
MetricsDone(r, outcome) ==
    /\ BagIn(r, inflight)
    /\ r.kind = "metrics"
    /\ Resume(r)
    /\ last' = IF outcome = "ok"
               THEN Response("metrics", 200,
                             [success |-> TRUE,
                              metrics |->
                                  [customer |->
                                      getCustomer(Null, r.credentials, "ok").customer_id]],
                             TRUE, outcome)
               ELSE Response("metrics", 500,
                             [success |-> FALSE,
                              message |-> "Failed to fetch account metrics",
                              error |-> ErrorMessage(outcome)],
                             TRUE, outcome)
    /\ UNCHANGED << gate, arrivals, envKey, file, lastWrite, StoreVars, ClientVars >>

(***************************************************************************)
(* Handlers the frontend calls and the specification describes.            *)
(***************************************************************************)
\* the body with the bug of a flag that depends on the stored value:
\* hasClientId tells whether the client id is longer than one character
CredentialsStatusByValue(credentials) ==
    [exists |-> credentials # Null,
     hasRefreshToken |-> credentials # Null /\ ~Falsy(credentials.refreshToken),
     hasDeveloperToken |-> credentials # Null /\ ~Falsy(credentials.developerToken),
     hasClientId |-> credentials # Null /\ Len(credentials.clientId) > 1,
     hasClientSecret |-> credentials # Null /\ ~Falsy(credentials.clientSecret)]

\* the body of GET /api/credentials for what the store holds
CredentialsStatus(credentials) ==
    [exists |-> credentials # Null,
     hasRefreshToken |-> credentials # Null /\ ~Falsy(credentials.refreshToken),
     hasDeveloperToken |-> credentials # Null /\ ~Falsy(credentials.developerToken),
     hasClientId |-> credentials # Null /\ ~Falsy(credentials.clientId),
     hasClientSecret |-> credentials # Null /\ ~Falsy(credentials.clientSecret)]

\* the handler of GET /api/credentials: its response
GetCredentialsHandler ==
    last' = Response("getCredentials", 200,
                     CredentialsStatus(loadCredentials(file)), FALSE, "none")

\* GET /api/credentials
GetCredentials ==
    /\ GetCredentialsHandler
    /\ UNCHANGED << gate, arrivals, envKey, file, inflight, lastWrite, StoreVars, ClientVars >>

\* clear(): removes the file if present; absence is not an error
clearCredentials(f, fs) ==
    IF f.kind = "absent" THEN [ret |-> TRUE, file |-> f]
    ELSE IF fs # "ok" THEN [ret |-> FALSE, file |-> f]
    ELSE [ret |-> TRUE, file |-> Absent]

\* the handler of DELETE /api/credentials: its response and what it leaves
\* in the store
DeleteCredentialsHandler(fs) ==
    LET cleared == clearCredentials(file, fs) IN
       /\ file' = cleared.file
       /\ lastWrite' = IF cleared.ret THEN Null ELSE lastWrite
       /\ last' = IF cleared.ret
                  THEN Response("deleteCredentials", 200, [success |-> TRUE],
                                FALSE, "none")
                  ELSE Response("deleteCredentials", 500,
                                Failure("Failed to delete credentials"), FALSE, "none")

\* DELETE /api/credentials
DeleteCredentials(fs) ==
    /\ DeleteCredentialsHandler(fs)
    /\ UNCHANGED << gate, arrivals, envKey, inflight, StoreVars, ClientVars >>

(***************************************************************************)
(* The server.                                                             *)
(***************************************************************************)
Init ==
    /\ envKey \in KeyConfigs
    /\ file = Absent
    /\ inflight = EmptyBag
    /\ last = NoResponse
    /\ lastWrite = Null
    /\ dirty = FALSE
    /\ tampers = 0
    /\ loaded = [called |-> FALSE]
    /\ storage = NoItem
    /\ browser = NoCall
    /\ arrivals = Unbounded
    /\ gate = NoRequest
    /\ service = NewService
    /\ fetched = NotFetched
    /\ app = NotMounted
    /\ clients = << >>
    /\ called = NotCalled
    /\ listed = << >>
    /\ now = 1

Requests ==
    {[kind |-> k, credentials |-> c, accountId |-> Undef, ticket |-> t] :
         k \in {"testConnection", "accounts"}, c \in ValidBodies, t \in Tickets}
    \cup {[kind |-> "metrics", credentials |-> c, accountId |-> a, ticket |-> t] :
              c \in ValidBodies, a \in AccountIds, t \in Tickets}

Next ==
    \/ Health
    \/ \E b \in Bodies, iv \in SomeIVs, fs \in FsResults : PostCredentials(b, iv, fs)
    \/ \E b \in Bodies, lib \in LibResults : TestConnectionStart(b, lib)
    \/ \E r \in BagToSet(inflight), o \in Outcomes, iv \in SomeIVs, fs \in FsResults :
           TestConnectionDone(r, o, iv, fs)
    \/ AccountsStart
    \/ \E r \in BagToSet(inflight), o \in Outcomes : AccountsDone(r, o)
    \/ \E a \in AccountIds : MetricsStart(a)
    \/ \E r \in BagToSet(inflight), o \in Outcomes : MetricsDone(r, o)
    \/ GetCredentials
    \/ \E fs \in FsResults : DeleteCredentials(fs)

Spec == Init /\ [][Next]_vars

(***************************************************************************)
(* The server behind its cors middleware: app.use(cors({origin: [...]}))   *)
(* runs before every route handler.                                        *)
(***************************************************************************)
\* the Origin header: absent, one of the configured list, or another
NoOrigin == "none"
AllowList == {"http://localhost:5173", "https://aqassvhw.manus.space"}
Origins == {NoOrigin} \cup AllowList \cup {"https://other.example"}
Methods == {"GET", "POST", "DELETE", "OPTIONS"}

\* cors(options)(req, res, next) for origin: [array]: the header
\* Access-Control-Allow-Origin reflects an origin of the list and is left
\* out otherwise; a preflight is answered 204, any other request goes on
cors(origin, method) ==
    [origin |-> origin, method |-> method,
     allowOrigin |-> IF origin \in AllowList THEN origin ELSE "none",
     next |-> method # "OPTIONS"]

\* a request passes through app.use(cors(...))
Cors(origin, method) ==
    /\ gate' = cors(origin, method)
    /\ last' = IF gate'.next THEN last
               ELSE Response("preflight", 204, [status |-> "No Content"], FALSE, "none")
    /\ UNCHANGED << arrivals, envKey, file, inflight, lastWrite, StoreVars, ClientVars >>

\* next(): the route handler of the request that passed the middleware
Route ==
    /\ gate.next
    /\ \/ Health
       \/ \E b \in Bodies, iv \in SomeIVs, fs \in FsResults : PostCredentials(b, iv, fs)
       \/ GetCredentials
       \/ \E fs \in FsResults : DeleteCredentials(fs)
       \/ AccountsStart
       \/ \E r \in BagToSet(inflight), o \in Outcomes : AccountsDone(r, o)

CorsNext ==
    \/ \E origin \in Origins, method \in Methods : Cors(origin, method)
    \/ Route

CorsSpec == Init /\ [][CorsNext]_vars

(***************************************************************************)
(* The server under a bounded run of numbered requests, every upstream     *)
(* call of which settles: the promise a handler awaits is resolved or      *)
(* rejected by the library, and the event loop then resumes the handler.   *)
(***************************************************************************)
LiveInit ==
    /\ envKey = [chars |-> 0, wide |-> 0]
    /\ file = Absent
    /\ inflight = EmptyBag
    /\ last = NoResponse
    /\ lastWrite = Null
    /\ dirty = FALSE
    /\ tampers = 0
    /\ loaded = [called |-> FALSE]
    /\ storage = NoItem
    /\ browser = NoCall
    /\ arrivals = MaxRequests
    /\ gate = NoRequest
    /\ service = NewService
    /\ fetched = NotFetched
    /\ app = NotMounted
    /\ clients = << >>
    /\ called = NotCalled
    /\ listed = << >>
    /\ now = 1

\* the upstream call of r settles and the handler runs on from its await
Settles(r) ==
    \/ \E o \in Outcomes, iv \in SomeIVs, fs \in FsResults :
           TestConnectionDone(r, o, iv, fs)
    \/ \E o \in Outcomes : AccountsDone(r, o)
    \/ \E o \in Outcomes : MetricsDone(r, o)

\* the request numbered t is waiting on its upstream call
Waiting(t) == \E r \in BagToSet(inflight) : r.ticket = t

\* the upstream call of the request numbered t settles
SettlesTicket(t) == \E r \in BagToSet(inflight) : r.ticket = t /\ Settles(r)

\* the requests of the numbered run: one body that passes the validation
\* and one that does not, one initialisation vector, one account, a disk
\* that works
LiveBodies == {RecA, CHOOSE b \in InvalidBodies : TRUE}
LiveIV == CHOOSE iv \in SomeIVs : TRUE
LiveAccountId == CHOOSE a \in AccountIds : TRUE

LiveNext ==
    \/ \E b \in LiveBodies : PostCredentials(b, LiveIV, "ok")
    \/ \E b \in LiveBodies, lib \in LibResults : TestConnectionStart(b, lib)
    \/ \E r \in BagToSet(inflight), o \in Outcomes :
           TestConnectionDone(r, o, LiveIV, "ok")
    \/ AccountsStart
    \/ \E r \in BagToSet(inflight), o \in Outcomes : AccountsDone(r, o)
    \/ MetricsStart(LiveAccountId)
    \/ \E r \in BagToSet(inflight), o \in Outcomes : MetricsDone(r, o)
    \/ DeleteCredentials("ok")

LiveSpec ==
    /\ LiveInit
    /\ [][LiveNext]_vars
    /\ \A t \in 1..MaxRequests : WF_vars(SettlesTicket(t))

(***************************************************************************)
(* The credential store on its own, with a file that other processes can   *)
(* change: saveCredentials and loadCredentials called directly.            *)
(***************************************************************************)
NotLoaded == [called |-> FALSE]

\* the store is also run with a short key that padEnd fills
StoreKeyConfigs == KeyConfigs \cup { [chars |-> 8, wide |-> 0] }

StoreInit ==
    /\ envKey \in StoreKeyConfigs
    /\ file = Absent
    /\ inflight = EmptyBag
    /\ last = NoResponse
    /\ lastWrite = Null
    /\ dirty = FALSE
    /\ tampers = 0
    /\ loaded = NotLoaded
    /\ storage = NoItem
    /\ browser = NoCall
    /\ arrivals = Unbounded
    /\ gate = NoRequest
    /\ service = NewService
    /\ fetched = NotFetched
    /\ app = NotMounted
    /\ clients = << >>
    /\ called = NotCalled
    /\ listed = << >>
    /\ now = 1

\* a call of saveCredentials(c)
StoreSave(c, iv, fs) ==
    /\ LET saved == saveCredentials(c, iv, fs) IN
       /\ file' = saved.file
       /\ lastWrite' = IF saved.ret THEN c ELSE lastWrite
       /\ dirty' = IF saved.ret THEN FALSE ELSE dirty
    /\ loaded' = NotLoaded
    /\ UNCHANGED << gate, arrivals, envKey, inflight, last, tampers, ClientVars >>

\* a call of loadCredentials()
StoreLoad ==
    /\ loaded' = [called |-> TRUE, ret |-> loadCredentials(file)]
    /\ UNCHANGED << gate, arrivals, envKey, file, inflight, last, lastWrite, dirty, tampers, ClientVars >>

\* another process overwrites one character of the stored iv
TamperIv(i, d) ==
    /\ tampers < MaxTamper
    /\ file.kind = "obj" /\ file.iv # Undef
    /\ i \in 1 .. Len(file.iv) /\ d # file.iv[i]
    /\ file' = [file EXCEPT !.iv[i] = d]
    /\ dirty' = TRUE /\ tampers' = tampers + 1 /\ loaded' = NotLoaded
    /\ UNCHANGED << gate, arrivals, envKey, inflight, last, lastWrite, ClientVars >>

\* another process overwrites one character of the stored ciphertext
TamperData(i, d) ==
    /\ tampers < MaxTamper
    /\ file.kind = "obj" /\ file.data # Undef
    /\ i \in 1 .. Len(file.data) /\ d # file.data[i]
    /\ file' = [file EXCEPT !.data[i] = d]
    /\ dirty' = TRUE /\ tampers' = tampers + 1 /\ loaded' = NotLoaded
    /\ UNCHANGED << gate, arrivals, envKey, inflight, last, lastWrite, ClientVars >>

\* another process cuts the stored ciphertext to its first n characters
TruncateData(n) ==
    /\ tampers < MaxTamper
    /\ file.kind = "obj" /\ file.data # Undef
    /\ n < Len(file.data)
    /\ file' = [file EXCEPT !.data = SubSeq(file.data, 1, n)]
    /\ dirty' = TRUE /\ tampers' = tampers + 1 /\ loaded' = NotLoaded
    /\ UNCHANGED << gate, arrivals, envKey, inflight, last, lastWrite, ClientVars >>

\* another process replaces the file: by text that is no JSON, by the JSON
\* null, or by an object without its iv
CorruptFile(f) ==
    /\ tampers < MaxTamper
    /\ f.kind # "obj" \/ file.kind = "obj"
    /\ file' = IF f.kind = "obj" THEN [file EXCEPT !.iv = Undef] ELSE f
    /\ dirty' = TRUE /\ tampers' = tampers + 1 /\ loaded' = NotLoaded
    /\ UNCHANGED << gate, arrivals, envKey, inflight, last, lastWrite, ClientVars >>

FileDigits == HexDigit \cup {BadDigit}
MaxDigits == 2 * BlockSize * 8

StoreNext ==
    \/ \E c \in StoreRecords, iv \in SomeIVs, fs \in FsResults : StoreSave(c, iv, fs)
    \/ StoreLoad
    \/ \E i \in 1 .. MaxDigits, d \in FileDigits : TamperIv(i, d)
    \/ \E i \in 1 .. MaxDigits, d \in FileDigits : TamperData(i, d)
    \/ \E n \in 0 .. MaxDigits : TruncateData(n)
    \/ \E f \in {TextFile, NullFile, [kind |-> "obj"]} : CorruptFile(f)

StoreSpec == StoreInit /\ [][StoreNext]_vars

(***************************************************************************)
(* The browser's credentials service (credentialsService, localStorage),   *)
(* next to the credential endpoints of the server it backs up to.          *)
(***************************************************************************)
\* the characters of ENCRYPTION_KEY of the service (scaled)
BrowserKey == << 1, 2, 2 >>

RECURSIVE XorAll(_, _)
\* textToChars(key).reduce((a, b) => a ^ b, code)
XorAll(key, code) ==
    IF key = << >> THEN code ELSE XorAll(Tail(key), BitXor(code, Head(key)))

applySaltToChar(code) == XorAll(BrowserKey, code)

\* byteHex without the leading "0": one digit for a small number
byteHexUnpadded(n) ==
    IF n < Radix THEN << n >> ELSE << (n \div Radix) % Radix, n % Radix >>

\* ("0" + Number(n).toString(16)).substr(-2): the last two digits
byteHex(n) == << (n \div Radix) % Radix, n % Radix >>

RECURSIVE credentialsService_encrypt(_)
\* encrypt(data): every character salted and written as two digits
credentialsService_encrypt(data) ==
    IF data = << >> THEN << >>
    ELSE byteHex(applySaltToChar(Head(data))) \o credentialsService_encrypt(Tail(data))

\* parseInt(hex, 16) of a chunk of one or two characters: the digits before
\* the first character that is none; NaN, which ^ takes for 0, when there is
\* none
ParseChunk(chunk) ==
    IF chunk[1] \notin HexDigit THEN 0
    ELSE IF Len(chunk) = 1 \/ chunk[2] \notin HexDigit THEN chunk[1]
    ELSE chunk[1] * Radix + chunk[2]

RECURSIVE credentialsService_decrypt(_)
\* decrypt(encoded): the chunks of encoded.match(/.{1,2}/g), unsalted
credentialsService_decrypt(encoded) ==
    IF encoded = << >> THEN << >>
    ELSE LET n == IF Len(encoded) = 1 THEN 1 ELSE 2
         IN << applySaltToChar(ParseChunk(SubSeq(encoded, 1, n))) >>
            \o credentialsService_decrypt(SubSeq(encoded, n + 1, Len(encoded)))

\* how localStorage.setItem ends: it returns, or it throws because the quota
\* is exceeded
SetItemResults == {"ok", "QuotaExceededError"}

\* the records the browser saves
BrowserRecords == StoreRecords \cup ValidBodies

\* saveCredentials(credentials) of the service: what it returns and the item
\* it leaves
credentialsService_saveCredentials(item, credentials, quota) ==
    IF quota # "ok" THEN [ret |-> FALSE, item |-> item]
    ELSE [ret |-> TRUE,
          item |-> Item(credentialsService_encrypt(Stringify(credentials)))]

\* getCredentials() of the service
credentialsService_getCredentials(item) ==
    IF item = NoItem \/ item.text = << >> THEN Null
    ELSE LET parsed == Parse(credentialsService_decrypt(item.text))
         IN IF parsed.ok THEN parsed.v ELSE Null

\* hasCredentials() of the service
credentialsService_hasCredentials(item) == item # NoItem

\* clearCredentials() with the bug of leaving the item in place
credentialsService_clearCredentialsKeeps(item) == item

\* clearCredentials() of the service: the item after removeItem
credentialsService_clearCredentials(item) == NoItem

\* a call of credentialsService.saveCredentials(c)
LocalSave(c, quota) ==
    /\ LET saved == credentialsService_saveCredentials(storage, c, quota) IN
       /\ storage' = saved.item
       /\ browser' = [op |-> "save", saved |-> saved.ret]
    /\ UNCHANGED << PageVars, service, fetched, gate, arrivals, envKey, file, inflight, last, lastWrite, StoreVars >>

\* a call of credentialsService.getCredentials()
LocalGet ==
    /\ browser' = [op |-> "get",
                   credentials |-> credentialsService_getCredentials(storage)]
    /\ UNCHANGED << PageVars, service, fetched, gate, arrivals, envKey, file, inflight, last, lastWrite, StoreVars, storage >>

\* a call of credentialsService.hasCredentials()
LocalHas ==
    /\ browser' = [op |-> "has", exists |-> credentialsService_hasCredentials(storage)]
    /\ UNCHANGED << PageVars, service, fetched, gate, arrivals, envKey, file, inflight, last, lastWrite, StoreVars, storage >>

\* a call of credentialsService.clearCredentials(); had tells (history)
\* whether there was an item to remove
LocalClear ==
    /\ storage' = credentialsService_clearCredentials(storage)
    /\ browser' = [op |-> "clear", had |-> storage # NoItem]
    /\ UNCHANGED << PageVars, service, fetched, gate, arrivals, envKey, file, inflight, last, lastWrite, StoreVars >>

\* credentialsService.saveToBackend(c): the POST /api/credentials it sends
SaveToBackend(c, iv, fs) == PostCredentials(c, iv, fs)

BrowserNext ==
    \/ \E c \in BrowserRecords, quota \in SetItemResults : LocalSave(c, quota)
    \/ LocalGet
    \/ LocalHas
    \/ LocalClear
    \/ \E c \in BrowserRecords, iv \in SomeIVs, fs \in FsResults : SaveToBackend(c, iv, fs)
    \/ GetCredentials
    \/ \E fs \in FsResults : DeleteCredentials(fs)

BrowserSpec == Init /\ [][BrowserNext]_vars

(***************************************************************************)
(* The App component: authentication on load, login and logout.            *)
(***************************************************************************)
UserRoles == {"admin", "user"}

\* getValidCredentials() of the service: null unless the four required
\* properties of the stored record are truthy
credentialsService_getValidCredentials(item) ==
    LET credentials == credentialsService_getCredentials(item) IN
    IF credentials = Null THEN Null
    ELSE IF \/ Falsy(credentials.clientId) \/ Falsy(credentials.clientSecret)
            \/ Falsy(credentials.developerToken) \/ Falsy(credentials.refreshToken)
         THEN Null
         ELSE credentials

\* checkAuth with the bug of asking only whether an item is stored
checkAuthAnyItem(item, userRole) ==
    IF credentialsService_hasCredentials(item)
    THEN [isAuthenticated |-> TRUE, isLoading |-> FALSE,
          userRole |-> IF userRole = "none" THEN "admin" ELSE userRole,
          event |-> "load"]
    ELSE [isAuthenticated |-> FALSE, isLoading |-> FALSE, userRole |-> userRole,
          event |-> "load"]

\* checkAuth of a freshly mounted App: the state it leaves and the userRole
\* item it writes
checkAuth(item, userRole) ==
    IF /\ credentialsService_hasCredentials(item)
       /\ credentialsService_getValidCredentials(item) # Null
    THEN [isAuthenticated |-> TRUE, isLoading |-> FALSE,
          userRole |-> IF userRole = "none" THEN "admin" ELSE userRole,
          event |-> "load"]
    ELSE [isAuthenticated |-> FALSE, isLoading |-> FALSE, userRole |-> userRole,
          event |-> "load"]

\* what App renders
Shows(a) ==
    IF ~a.isAuthenticated /\ ~a.isLoading THEN "LoginForm"
    ELSE IF a.isLoading THEN "Loading"
    ELSE "Routes"

\* the page is loaded (or reloaded): App mounts and its effect runs checkAuth
AppLoad ==
    /\ app' = checkAuth(storage, app.userRole)
    /\ UNCHANGED << clients, called, listed, now, storage, browser, service, fetched,
                    gate, arrivals, envKey, file, inflight, last, lastWrite, StoreVars >>

\* handleLoginSuccess(_username, role), called by the login form
handleLoginSuccess(role) ==
    /\ Shows(app) = "LoginForm"
    /\ app' = [app EXCEPT !.isAuthenticated = TRUE, !.userRole = role, !.event = "login"]
    /\ UNCHANGED << clients, called, listed, now, storage, browser, service, fetched,
                    gate, arrivals, envKey, file, inflight, last, lastWrite, StoreVars >>

\* handleLogout of the pages: the credentials and the userRole item are
\* removed; the reload it schedules is the next AppLoad
handleLogout ==
    /\ Shows(app) = "Routes"
    /\ storage' = credentialsService_clearCredentials(storage)
    /\ browser' = [op |-> "clear", had |-> storage # NoItem]
    /\ app' = [app EXCEPT !.userRole = "none", !.event = "logout"]
    /\ UNCHANGED << clients, called, listed, now, service, fetched,
                    gate, arrivals, envKey, file, inflight, last, lastWrite, StoreVars >>

AppNext ==
    \/ \E c \in BrowserRecords, quota \in SetItemResults : LocalSave(c, quota)
    \/ AppLoad
    \/ \E role \in UserRoles : handleLoginSuccess(role)
    \/ handleLogout

AppSpec == Init /\ [][AppNext]_vars

(***************************************************************************)
(* The frontend's GoogleAdsService with the clients it delegates to.       *)
(***************************************************************************)
Periods == {"7days", "30days", "month"}
DataMethods ==
    {"getMetricsOverview", "getConversionChartData", "getCostPerLeadChartData",
     "getRecentConversions"}
\* how axios.get ends: a 2xx answer with a JSON object, a 2xx answer whose
\* body is JSON null, an answer outside 2xx, no answer at all
HttpResults == {"ok", "null", "status500", "network"}

\* credentialsService.hasCredentialsSync()
hasCredentialsSync(s) == s.isLoaded /\ s.cached # Null
\* GoogleAdsService.hasApiCredentialsSync()
hasApiCredentialsSync(s) == s.credentials # Null \/ hasCredentialsSync(s)

\* what the mock client returns for a method and a period
MockDataset(method, period) == [source |-> "mock", method |-> method, period |-> period]
\* the dataset built from the answer of the server
RealDataset(method, period) == [source |-> "real", method |-> method, period |-> period]

\* an async method resolved with a dataset, or rejected
Resolves(dataset, requests) ==
    [settled |-> "resolved", dataset |-> dataset, requests |-> requests]
Rejects(requests) ==
    [settled |-> "rejected", dataset |-> [source |-> "none"], requests |-> requests]

\* RealGoogleAdsApiClient.fetchMetrics(period): response.data, or a throw
fetchMetrics(s, period, http) ==
    IF Falsy(s.selectedAccountId) THEN [ok |-> FALSE, data |-> "none", requests |-> 0]
    ELSE IF http \in {"ok", "null"} THEN [ok |-> TRUE, data |-> http, requests |-> 1]
    ELSE [ok |-> FALSE, data |-> "none", requests |-> 1]

\* getMetricsOverview without its try/catch
getMetricsOverviewNoCatch(s, period, http) ==
    IF hasApiCredentialsSync(s) /\ s.isConnected
    THEN IF Falsy(s.selectedAccountId) THEN Rejects(0)
         ELSE LET metrics == fetchMetrics(s, period, http) IN
              IF ~metrics.ok \/ metrics.data = "null" THEN Rejects(metrics.requests)
              ELSE Resolves(RealDataset("getMetricsOverview", period), metrics.requests)
    ELSE Resolves(MockDataset("getMetricsOverview", period), 0)

\* GoogleAdsService.getMetricsOverview(period)
getMetricsOverview(s, period, http) ==
    IF hasApiCredentialsSync(s) /\ s.isConnected
    THEN IF Falsy(s.selectedAccountId)
         THEN Resolves(MockDataset("getMetricsOverview", period), 0)
         ELSE LET metrics == fetchMetrics(s, period, http) IN
              IF ~metrics.ok \/ metrics.data = "null"
              THEN Resolves(MockDataset("getMetricsOverview", period), metrics.requests)
              ELSE Resolves(RealDataset("getMetricsOverview", period), metrics.requests)
    ELSE Resolves(MockDataset("getMetricsOverview", period), 0)

\* getConversionChartData, getCostPerLeadChartData, getRecentConversions:
\* every branch returns what the mock client returns
getMockBacked(method, s, period) ==
    IF hasApiCredentialsSync(s) /\ s.isConnected
    THEN IF Falsy(s.selectedAccountId)
         THEN Resolves(MockDataset(method, period), 0)
         ELSE Resolves(MockDataset(method, period), 0)
    ELSE Resolves(MockDataset(method, period), 0)

\* GoogleAdsService.loadCredentials(): credentialsService.getCredentials()
\* answers from its cache or asks the server whether a record exists
ServiceLoadCredentials(exists) ==
    /\ LET found == IF hasCredentialsSync(service) THEN service.cached
                     ELSE IF exists THEN Placeholder ELSE Null IN
       service' = [service EXCEPT !.credentials = found, !.isLoaded = TRUE,
                                  !.cached = found]
    /\ UNCHANGED << gate, arrivals, envKey, file, inflight, last, lastWrite,
                    StoreVars, storage, browser, fetched, PageVars >>

\* testConnection with the bug of connecting whenever fetchAccounts() returns
ServiceTestConnectionAlways(success) ==
    /\ service' = [service EXCEPT !.isConnected = TRUE,
                                  !.lastConnectionCheck = "Date"]
    /\ UNCHANGED << gate, arrivals, envKey, file, inflight, last, lastWrite,
                    StoreVars, storage, browser, fetched, PageVars >>

\* GoogleAdsService.testConnection(): fetchAccounts() succeeded or not
ServiceTestConnection(success) ==
    /\ service' = [service EXCEPT !.isConnected = success,
                                  !.lastConnectionCheck = "Date"]
    /\ UNCHANGED << gate, arrivals, envKey, file, inflight, last, lastWrite,
                    StoreVars, storage, browser, fetched, PageVars >>

\* googleAdsApiRealClient.setSelectedAccountId(accountId)
SetSelectedAccountId(accountId) ==
    /\ service' = [service EXCEPT !.selectedAccountId = accountId]
    /\ UNCHANGED << gate, arrivals, envKey, file, inflight, last, lastWrite,
                    StoreVars, storage, browser, fetched, PageVars >>

\* a call of one of the four data methods
Fetch(method, period, http) ==
    /\ LET result == IF method = "getMetricsOverview"
                     THEN getMetricsOverview(service, period, http)
                     ELSE getMockBacked(method, service, period) IN
       fetched' = [method |-> method, period |-> period,
                   http |-> IF result.requests = 0 THEN "none" ELSE http,
                   settled |-> result.settled, dataset |-> result.dataset,
                   requests |-> result.requests]
    /\ UNCHANGED << gate, arrivals, envKey, file, inflight, last, lastWrite,
                    StoreVars, storage, browser, service, PageVars >>

FrontNext ==
    \/ \E exists \in BOOLEAN : ServiceLoadCredentials(exists)
    \/ \E success \in BOOLEAN : ServiceTestConnection(success)
    \/ \E a \in AccountIds : SetSelectedAccountId(a)
    \/ \E method \in DataMethods, period \in Periods, http \in HttpResults :
           Fetch(method, period, http)

FrontSpec == Init /\ [][FrontNext]_vars

(***************************************************************************)
(* The server-backed CredentialsService of the frontend, its cache, and    *)
(* the start of GoogleAdsService, with the server they talk to.            *)
(***************************************************************************)
\* how fetch / axios ends: the server answered, or no answer arrived
NetResults == {"ok", "network"}

\* saveCredentials with the bug of caching the record whatever the answer
cacheAfterSaveAlways(s, credentials, ok) ==
    [s EXCEPT !.cached = credentials, !.isLoaded = TRUE]

\* saveCredentials(credentials): the cache after the POST was answered with
\* response.ok, or was not
cacheAfterSave(s, credentials, ok) ==
    IF ok THEN [s EXCEPT !.cached = credentials, !.isLoaded = TRUE] ELSE s

\* getCredentials(): what it returns; answered is FALSE when the fetch threw
credentialsService_getCached(s, answered, exists) ==
    IF hasCredentialsSync(s) THEN s.cached
    ELSE IF answered /\ exists THEN Placeholder
    ELSE Null

\* clearCredentials(): the cache after the DELETE was answered with
\* response.ok, or was not
cacheAfterClear(s, ok) ==
    IF ok THEN [s EXCEPT !.cached = Null, !.isLoaded = TRUE] ELSE s

\* a call of credentialsService.saveCredentials(c) by the settings page
CacheSave(c, net, iv, fs) ==
    /\ IF net = "network"
       THEN /\ service' = cacheAfterSave(service, c, FALSE)
            /\ browser' = [op |-> "cacheSave", ret |-> FALSE]
            /\ UNCHANGED << file, lastWrite, last >>
       ELSE /\ PostCredentialsHandler(c, iv, fs)
            /\ service' = cacheAfterSave(service, c, last'.status = 200)
            /\ browser' = [op |-> "cacheSave", ret |-> last'.status = 200]
    /\ UNCHANGED << PageVars, fetched, storage, gate, arrivals, envKey, inflight,
                    StoreVars >>

\* a call of credentialsService.getCredentials()
CacheGet(net) ==
    /\ LET exists == CredentialsStatus(loadCredentials(file)).exists
           value == credentialsService_getCached(service, net = "ok", exists)
       IN /\ service' = [service EXCEPT !.cached = value, !.isLoaded = TRUE]
          /\ browser' = [op |-> "cacheGet", value |-> value,
                         asked |-> ~hasCredentialsSync(service)]
          /\ IF ~hasCredentialsSync(service) /\ net = "ok"
             THEN GetCredentialsHandler
             ELSE UNCHANGED last
    /\ UNCHANGED << PageVars, fetched, storage, gate, arrivals, envKey, inflight,
                    StoreVars, file, lastWrite >>

\* a call of credentialsService.clearCredentials()
CacheClear(net, fs) ==
    /\ IF net = "network"
       THEN /\ service' = cacheAfterClear(service, FALSE)
            /\ browser' = [op |-> "cacheClear", ret |-> FALSE]
            /\ UNCHANGED << file, lastWrite, last >>
       ELSE /\ DeleteCredentialsHandler(fs)
            /\ service' = cacheAfterClear(service, last'.status = 200)
            /\ browser' = [op |-> "cacheClear", ret |-> last'.status = 200]
    /\ UNCHANGED << PageVars, fetched, storage, gate, arrivals, envKey, inflight,
                    StoreVars >>

\* the page is loaded anew: the services are constructed again
Reload ==
    /\ service' = NewService
    /\ browser' = [op |-> "reload"]
    /\ UNCHANGED << PageVars, fetched, storage, gate, arrivals, envKey, inflight,
                    StoreVars, file, lastWrite, last >>

\* new GoogleAdsService(): loadCredentials() takes what getCredentials()
\* returns and, if that is a record, saveCredentialsToServer() posts it
NewGoogleAdsService(netGet, netPost, iv, fs) ==
    /\ LET asked == ~hasCredentialsSync(service)
           exists == CredentialsStatus(loadCredentials(file)).exists
           credentials == credentialsService_getCached(service, netGet = "ok", exists)
       IN /\ service' = [service EXCEPT !.credentials = credentials,
                                        !.cached = credentials, !.isLoaded = TRUE]
          /\ browser' = [op |-> "loadCredentials", value |-> credentials,
                         asked |-> asked]
          /\ IF credentials # Null /\ netPost = "ok"
             THEN PostCredentialsHandler(credentials, iv, fs)
             ELSE IF asked /\ netGet = "ok"
             THEN GetCredentialsHandler /\ UNCHANGED << file, lastWrite >>
             ELSE UNCHANGED << file, lastWrite, last >>
    /\ UNCHANGED << PageVars, fetched, storage, gate, arrivals, envKey, inflight,
                    StoreVars >>

SessionNext ==
    \/ \E c \in ValidBodies, net \in NetResults, iv \in SomeIVs, fs \in FsResults :
           CacheSave(c, net, iv, fs)
    \/ \E net \in NetResults : CacheGet(net)
    \/ \E net \in NetResults, fs \in FsResults : CacheClear(net, fs)
    \/ Reload
    \/ \E netGet \in NetResults, netPost \in NetResults, iv \in SomeIVs,
          fs \in FsResults : NewGoogleAdsService(netGet, netPost, iv, fs)

SessionSpec == Init /\ [][SessionNext]_vars

(***************************************************************************)
(* ClientsService: the list of clients behind the admin dashboard.         *)
(***************************************************************************)
\* what find() returns when no client matches
Undefined == [undefined |-> TRUE]
\* names of clients: the one they are created with, one an edit gives
ClientNames == {"Client", "Edited"}
\* the updates the dashboard passes to updateClient: properties other than
\* the id
ClientUpdates == {[name |-> "Edited", isArchived |-> b] : b \in BOOLEAN}

\* generateMockClients(): client-1, client-2, ...; which of them are archived
\* is drawn at random
generateMockClients(archived) ==
    [i \in 1 .. MockClients |-> Client(i, "Client", archived[i])]

\* clients.findIndex(client => client.id === id), counted from 1; 0 for -1
findIndex(cs, id) ==
    LET found == {i \in 1 .. Len(cs) : cs[i].id = id} IN
    IF found = {} THEN 0 ELSE CHOOSE i \in found : \A j \in found : i <= j

\* getClients(includeArchived)
getClients(cs, includeArchived) ==
    SelectSeq(cs, LAMBDA client : includeArchived \/ ~client.isArchived)

\* getArchivedClients()
getArchivedClients(cs) == SelectSeq(cs, LAMBDA client : client.isArchived)

\* getClientById(id)
getClientById(cs, id) ==
    IF findIndex(cs, id) = 0 THEN Undefined ELSE cs[findIndex(cs, id)]

\* addClient(client) at millisecond t: the new client and the list
addClient(cs, client, t) ==
    LET newClient == [client EXCEPT !.id = MockClients + t] IN
    [ret |-> newClient, clients |-> Append(cs, newClient)]

\* { ...client, ...updates }
Spread(client, updates) ==
    [f \in DOMAIN client |-> IF f \in DOMAIN updates THEN updates[f] ELSE client[f]]

\* updateClient with the bug of adding the client when it is not found
updateClientUpsert(cs, id, updates) ==
    LET index == findIndex(cs, id) IN
    IF index = 0
    THEN [ret |-> Undefined,
          clients |-> Append(cs, Spread(Client(id, "Client", FALSE), updates))]
    ELSE [ret |-> Spread(cs[index], updates),
          clients |-> [cs EXCEPT ![index] = Spread(cs[index], updates)]]

\* updateClient(id, updates): what it returns and the list
updateClient(cs, id, updates) ==
    LET index == findIndex(cs, id) IN
    IF index = 0 THEN [ret |-> Undefined, clients |-> cs]
    ELSE [ret |-> Spread(cs[index], updates),
          clients |-> [cs EXCEPT ![index] = Spread(cs[index], updates)]]

\* archiveClient(id)
archiveClient(cs, id) ==
    LET updated == updateClient(cs, id, [isArchived |-> TRUE]) IN
    [ret |-> updated.ret # Undefined, clients |-> updated.clients]

\* unarchiveClient(id)
unarchiveClient(cs, id) ==
    LET updated == updateClient(cs, id, [isArchived |-> FALSE]) IN
    [ret |-> updated.ret # Undefined, clients |-> updated.clients]

\* deleteClient(id): splice(index, 1)
deleteClient(cs, id) ==
    LET index == findIndex(cs, id) IN
    IF index = 0 THEN [ret |-> FALSE, clients |-> cs]
    ELSE [ret |-> TRUE,
          clients |-> SubSeq(cs, 1, index - 1) \o SubSeq(cs, index + 1, Len(cs))]

\* a call of the service: the method and whether it found the client
Call(op, found) == [op |-> op, found |-> found]

\* new ClientsService(), when the module is first imported
NewClientsService(archived) ==
    /\ called = NotCalled
    /\ clients' = generateMockClients(archived)
    /\ called' = Call("new", FALSE)
    /\ UNCHANGED << app, listed, now, storage, browser, service, fetched, gate,
                    arrivals, envKey, file, inflight, last, lastWrite, StoreVars >>

\* a millisecond passes
Tick ==
    /\ now < MaxClock
    /\ now' = now + 1
    /\ UNCHANGED << app, clients, called, listed, storage, browser, service, fetched,
                    gate, arrivals, envKey, file, inflight, last, lastWrite, StoreVars >>

\* handleSaveClient of a new client (isArchived false) and
\* handleAddTeamMember (isArchived true): clientsService.addClient(client)
AddClient(isArchived) ==
    /\ called # NotCalled
    /\ Len(clients) < MaxClients
    /\ clients' = addClient(clients, Client(0, "Client", isArchived), now).clients
    /\ called' = Call("addClient", TRUE)
    /\ UNCHANGED << app, listed, now, storage, browser, service, fetched, gate,
                    arrivals, envKey, file, inflight, last, lastWrite, StoreVars >>

\* clientsService.updateClient(id, updates)
UpdateClient(id, updates) ==
    /\ called # NotCalled
    /\ clients' = updateClient(clients, id, updates).clients
    /\ called' = Call("updateClient", updateClient(clients, id, updates).ret # Undefined)
    /\ UNCHANGED << app, listed, now, storage, browser, service, fetched, gate,
                    arrivals, envKey, file, inflight, last, lastWrite, StoreVars >>

\* clientsService.archiveClient(id)
ArchiveClient(id) ==
    /\ called # NotCalled
    /\ clients' = archiveClient(clients, id).clients
    /\ called' = Call("archiveClient", archiveClient(clients, id).ret)
    /\ UNCHANGED << app, listed, now, storage, browser, service, fetched, gate,
                    arrivals, envKey, file, inflight, last, lastWrite, StoreVars >>

\* clientsService.unarchiveClient(id)
UnarchiveClient(id) ==
    /\ called # NotCalled
    /\ clients' = unarchiveClient(clients, id).clients
    /\ called' = Call("unarchiveClient", unarchiveClient(clients, id).ret)
    /\ UNCHANGED << app, listed, now, storage, browser, service, fetched, gate,
                    arrivals, envKey, file, inflight, last, lastWrite, StoreVars >>

\* clientsService.deleteClient(id)
DeleteClient(id) ==
    /\ called # NotCalled
    /\ clients' = deleteClient(clients, id).clients
    /\ called' = Call("deleteClient", deleteClient(clients, id).ret)
    /\ UNCHANGED << app, listed, now, storage, browser, service, fetched, gate,
                    arrivals, envKey, file, inflight, last, lastWrite, StoreVars >>

ClientsNext ==
    \/ \E archived \in [1 .. MockClients -> BOOLEAN] : NewClientsService(archived)
    \/ Tick
    \/ \E isArchived \in BOOLEAN : AddClient(isArchived)
    \/ \E id \in ClientIds, updates \in ClientUpdates : UpdateClient(id, updates)
    \/ \E id \in ClientIds : ArchiveClient(id)
    \/ \E id \in ClientIds : UnarchiveClient(id)
    \/ \E id \in ClientIds : DeleteClient(id)

\* the pages do not depend on the key of the server: one configuration
PagesInit == Init /\ envKey = [chars |-> 0, wide |-> 0]

ClientsSpec == PagesInit /\ [][ClientsNext]_vars

(***************************************************************************)
(* ClientList: the clients of the home page merged with the accounts       *)
(* fetched from the server.                                                *)
(***************************************************************************)
\* the accounts a fetch returns: lists of accounts with ids of clients or
\* other ids
Account(id) == [id |-> id, name |-> "Account"]
AccountLists ==
    UNION {[1 .. n -> {Account(id) : id \in ClientIds}] : n \in 0 .. MaxAccounts}

\* an entry of allClients made of a client of the clients prop
OfClient(client) ==
    [id |-> client.id, name |-> client.name, isArchived |-> client.isArchived,
     isGoogleAdsAccount |-> FALSE]
\* an entry of allClients made of a fetched account
OfAccount(account) ==
    [id |-> account.id, name |-> account.name, isArchived |-> FALSE,
     isGoogleAdsAccount |-> TRUE]
\* [...clients] as entries of allClients
OfClients(cs) == [i \in 1 .. Len(cs) |-> OfClient(cs[i])]

\* fetchRealAccounts(): allClients after the fetch returned result
fetchRealAccounts(cs, success, accounts) ==
    IF success /\ Len(accounts) > 0
    THEN LET googleAdsClients == [i \in 1 .. Len(accounts) |-> OfAccount(accounts[i])]
             existingClientIds == {cs[i].id : i \in 1 .. Len(cs)}
             newGoogleAdsClients ==
                 SelectSeq(googleAdsClients,
                           LAMBDA client : client.id \notin existingClientIds)
         IN newGoogleAdsClients \o OfClients(cs)
    ELSE OfClients(cs)

\* ClientList is rendered with the clients of the home page and its effect
\* runs fetchRealAccounts()
FetchRealAccounts(success, accounts) ==
    /\ called # NotCalled
    /\ listed' = fetchRealAccounts(getClients(clients, FALSE), success, accounts)
    /\ UNCHANGED << app, clients, called, now, storage, browser, service, fetched,
                    gate, arrivals, envKey, file, inflight, last, lastWrite, StoreVars >>

\* handleClientSelect(client) for the i-th entry of the list
HandleClientSelect(i) ==
    /\ i \in 1 .. Len(listed)
    /\ service' = IF listed[i].isGoogleAdsAccount
                  THEN [service EXCEPT !.selectedAccountId = << listed[i].id >>]
                  ELSE service
    /\ app' = [app EXCEPT !.event = "select"]
    /\ UNCHANGED << clients, called, listed, now, storage, browser, fetched, gate,
                    arrivals, envKey, file, inflight, last, lastWrite, StoreVars >>

ListNext ==
    \/ \E archived \in [1 .. MockClients -> BOOLEAN] : NewClientsService(archived)
    \/ \E id \in ClientIds : ArchiveClient(id)
    \/ \E success \in BOOLEAN, accounts \in AccountLists :
           FetchRealAccounts(success, accounts)
    \/ \E i \in 1 .. (MockClients + MaxAccounts) : HandleClientSelect(i)

ListSpec == PagesInit /\ [][ListNext]_vars

(***************************************************************************)
(* Properties of the credential store (checked under StoreSpec).           *)
(***************************************************************************)
RequiredFields == {"clientId", "clientSecret", "developerToken", "refreshToken"}
KeyUsable == ENCRYPTION_KEY(envKey).bytes = KeyLen

\* C1: what saveCredentials(c) stored is what loadCredentials() returns, as
\* long as nothing else wrote the file since: decryptData(encryptData(c)) = c
\* for every record and every iv, and a load after a successful save returns
\* the record saved.
SaveLoadRoundTrip ==
    \* the key is fixed at start: the pure round trip is evaluated once per
    \* key, in the states before the first write
    /\ file = Absent =>
           \A c \in StoreRecords, iv \in IVs :
               LET e == encryptData(c, iv) IN e.ok => decryptData(e.v) = c
    /\ (lastWrite # Null /\ ~dirty) => loadCredentials(file) = lastWrite
    /\ (loaded.called /\ lastWrite # Null /\ ~dirty) => loaded.ret = lastWrite

\* a load after a save returned a record whose text fills whole blocks
SaveLoadRoundTripWitness ==
    loaded.called /\ ~dirty /\ lastWrite = RecC /\ loaded.ret = RecC

\* C7: once the stored iv or ciphertext was changed from outside,
\* loadCredentials() returns null.
TamperedLoadsNull ==
    dirty => loadCredentials(file) = Null

\* the file exists and reading it throws: its text is no JSON, or a step of
\* decryptData throws
Unreadable(f) ==
    /\ f.kind # "absent"
    /\ \/ ~ParseFile(f).ok
       \/ ~DecryptSteps(ParseFile(f).v).ok

\* C8: a call of loadCredentials() returns null when the file is absent and
\* when reading it throws, returns a value in every case, and leaves the file
\* as it was.
LoadFailsToNull ==
    [][(loaded'.called /\ StoreLoad) =>
          /\ file' = file
          /\ (file = Absent \/ Unreadable(file)) => loaded'.ret = Null
          /\ loaded'.ret = Null \/ DOMAIN loaded'.ret = DOMAIN RecA]_vars

\* a load returned null for a stored object that does not decrypt
LoadFailsToNullWitness ==
    loaded.called /\ file.kind = "obj" /\ Unreadable(file) /\ loaded.ret = Null

\* C17 as claimed: whatever ENCRYPTION_KEY is configured, the key handed to
\* the cipher is 32 characters and 32 bytes long, so that neither
\* createCipheriv nor createDecipheriv fails on its length.
EffectiveKeyIs32Bytes ==
    LET key == ENCRYPTION_KEY(envKey) IN
    /\ key.chars = KeyLen
    /\ key.bytes = KeyLen
    /\ \A iv \in SomeIVs : createCipheriv(key, iv).ok /\ createDecipheriv(key, iv).ok

(***************************************************************************)
(* Properties of the server (checked under Spec).                          *)
(***************************************************************************)
Proxied == {"testConnection", "accounts", "metrics"}
LacksRequired(b) == \E f \in RequiredFields : b[f] = Undef \/ b[f] = << >>
Sent(kind, status) == last'.kind = kind /\ last'.status = status
\* the step sends a response: every step of the server either suspends a
\* handler at its await or sends one
Responds == BagCardinality(inflight') <= BagCardinality(inflight)
\* the step is a POST /api/credentials; last'.request is its body
Posts == Responds /\ last'.kind = "postCredentials"
\* the step is DELETE /api/credentials
Deletes(fs) == last'.kind = "deleteCredentials" /\ DeleteCredentials(fs)
\* the step is GET /api/credentials
Gets == last'.kind = "getCredentials" /\ GetCredentials

RefreshFailureIs401 ==
    (last.kind \in Proxied /\ last.outcome = "authFail") => last.status = 401

PostedOk == last.kind = "postCredentials" /\ last.status = 200
DeletedOk == last.kind = "deleteCredentials" /\ last.status = 200

\* C4 as claimed: a POST /api/credentials with all four fields is answered
\* success:true; a GET /api/credentials after it reports exists:true; a
\* DELETE after that is answered success:true; a GET after the delete
\* reports exists:false.
CredentialLifecycle ==
    [][/\ (Posts /\ ~LacksRequired(last'.request))
          => Sent("postCredentials", 200) /\ last'.body.success
       /\ (PostedOk /\ Gets) => last'.body.exists
       /\ \A fs \in FsResults :
             Deletes(fs) => Sent("deleteCredentials", 200) /\ last'.body.success
       /\ (DeletedOk /\ Gets) => ~last'.body.exists]_vars

\* C4 as amended: the POST and the DELETE are answered success:true unless
\* the store fails (the file system refuses the write or the removal, or the
\* configured key does not encode to KeyLen bytes), and are then answered
\* 500; a GET after a successful POST reports exists:true and a GET after a
\* successful DELETE reports exists:false.
CredentialLifecycleUnlessStoreFails ==
    [][/\ (Posts /\ ~LacksRequired(last'.request))
          => IF last'.fs = "ok" /\ KeyUsable
             THEN Sent("postCredentials", 200) /\ last'.body.success
             ELSE Sent("postCredentials", 500)
       /\ (PostedOk /\ Gets) => last'.body.exists
       /\ \A fs \in FsResults :
             Deletes(fs)
             => IF fs = "ok" \/ file = Absent
                THEN Sent("deleteCredentials", 200) /\ last'.body.success
                ELSE Sent("deleteCredentials", 500)
       /\ (DeletedOk /\ Gets) => ~last'.body.exists]_vars

\* a GET reported exists:true for a record a request saved
CredentialLifecycleWitness ==
    last.kind = "getCredentials" /\ last.body.exists /\ lastWrite \in ValidBodies

SamePresence(c, d) ==
    \A f \in RequiredFields : (c[f] = Undef \/ c[f] = << >>) <=> (d[f] = Undef \/ d[f] = << >>)

\* C5: the body of GET /api/credentials holds the existence flag and four
\* presence flags, all booleans, and is the same for any two stored records
\* with the same properties present.
StatusHidesValues ==
    [][Gets =>
          /\ last'.body \in [exists : BOOLEAN, hasRefreshToken : BOOLEAN,
                             hasDeveloperToken : BOOLEAN, hasClientId : BOOLEAN,
                             hasClientSecret : BOOLEAN]
          /\ \A c \in StoreRecords \cup ValidBodies :
                (lastWrite # Null /\ SamePresence(c, lastWrite))
                => last'.body = CredentialsStatus(c)]_vars

\* a GET answered for a stored record
StatusHidesValuesWitness ==
    last.kind = "getCredentials" /\ last.body.exists /\ lastWrite = RecB

\* C6: POST /api/credentials is answered 400, with the file as it was, when a
\* required property is missing or empty; 500 when all are present and the
\* store write fails; and success:true with the submitted record stored
\* otherwise.
PostCredentialsContract ==
    [][Posts
          => IF LacksRequired(last'.request)
             THEN last'.status = 400 /\ file' = file
             ELSE IF last'.fs # "ok" \/ ~KeyUsable
             THEN last'.status = 500
             ELSE /\ last'.status = 200 /\ last'.body.success
                  /\ loadCredentials(file') = last'.request]_vars

\* a POST was answered 400 and the stored record is still there
PostCredentialsContractWitness ==
    /\ last.kind = "postCredentials" /\ last.status = 400
    /\ lastWrite \in ValidBodies /\ loadCredentials(file) = lastWrite

\* C9 as claimed: the file changes only in a POST /api/credentials or a
\* DELETE /api/credentials.
OnlySaveAndClearWrite ==
    [][file' # file => last'.kind \in {"postCredentials", "deleteCredentials"}]_vars

\* C9 as amended: the file is created or overwritten only by a successful
\* POST /api/credentials or by a POST /api/test-connection whose upstream call
\* returned, and removed only by a DELETE /api/credentials;
\* health, accounts, metrics and a test-connection whose upstream call was
\* rejected leave it unchanged.
OnlySaveTestAndClearWrite ==
    [][file' # file =>
          \/ Sent("postCredentials", 200) /\ file' # Absent
          \/ /\ last'.kind = "testConnection" /\ last'.outcome \in Resolved
             /\ file' # Absent
          \/ last'.kind = "deleteCredentials"]_vars

\* a test-connection whose upstream call succeeded stored its body
OnlySaveTestAndClearWriteWitness ==
    /\ last.kind = "testConnection" /\ last.status = 200
    /\ lastWrite = RecB /\ loadCredentials(file) = RecB

\* C10: the file holds at most one record, the one of the write that
\* completed last, whole; and what a handler loaded is a whole record some
\* request submitted, never a mixture of two.
LastWriterWins ==
    /\ file # Absent => loadCredentials(file) = lastWrite
    /\ file = Absent => lastWrite = Null
    /\ \A r \in BagToSet(inflight) :
          r.kind \in {"accounts", "metrics"} => r.credentials \in ValidBodies

\* two saves overlapped: one test-connection wrote its record while another,
\* with a different record, was still waiting
LastWriterWinsWitness ==
    /\ last.kind = "testConnection" /\ last.status = 200 /\ lastWrite = RecB
    /\ loadCredentials(file) = RecB
    /\ \E r \in BagToSet(inflight) : r.kind = "testConnection" /\ r.credentials = RecA

\* the step starts a GET /api/accounts or GET /api/metrics/:accountId and
\* answers it before any upstream call
AnswersEarly ==
    Responds /\ last'.kind \in {"accounts", "metrics"} /\ ~last'.upstream

\* C12: a GET /api/accounts or GET /api/metrics/:accountId that issues its
\* upstream call does so with the record of the save that completed last, and
\* one handled while nothing is stored (none saved yet, or removed since) is
\* answered 400 without an upstream call; one handled while a record is
\* stored is never answered 400.
LoadsPerRequest ==
    [][/\ \A r \in Requests :
             (r.kind \in {"accounts", "metrics"}
              /\ inflight' = inflight (+) SetToBag({r}))
             => lastWrite # Null /\ r.credentials = lastWrite
       /\ \A a \in AccountIds :
             (lastWrite = Null /\ (AccountsStart \/ MetricsStart(a)))
             => last'.status = 400 /\ inflight' = inflight
       /\ AnswersEarly => (last'.status = 400 <=> lastWrite = Null)]_vars

\* a request that started after a second save waits with the new record
\* while one that started before it still holds the old one
LoadsPerRequestWitness ==
    /\ lastWrite = RecB
    /\ \E r \in BagToSet(inflight) : r.kind = "accounts" /\ r.credentials = RecA
    /\ \E r \in BagToSet(inflight) : r.kind = "metrics" /\ r.credentials = RecB

\* the outcomes in which the upstream call rejects
Rejected == Outcomes \ Resolved

\* C13: a proxied handler whose upstream call rejected answers 500 with
\* success:false and the message of the upstream error; the step takes this
\* handler out of the waiting ones and changes nothing else, so the others
\* and the store are as they were.
UpstreamFailureIs500 ==
    [][(Responds /\ last'.kind \in Proxied /\ last'.outcome \in Rejected)
       => /\ last'.status = 500
          /\ last'.body.success = FALSE
          /\ last'.body.error = ErrorMessage(last'.outcome)
          /\ BagCardinality(inflight') = BagCardinality(inflight) - 1
          /\ \A r \in BagToSet(inflight') : BagIn(r, inflight)
          /\ UNCHANGED << envKey, file, lastWrite >>]_vars

\* a metrics request was answered 500 for a refused query while another
\* handler is still waiting
UpstreamFailureIs500Witness ==
    /\ last.kind = "metrics" /\ last.outcome = "apiFail" /\ last.status = 500
    /\ last.body.error = "upstream error"
    /\ inflight # EmptyBag

\* a step treats every waiting handler as one request with one response
OneResponseEach ==
    /\ \A r \in BagToSet(inflight) :
           ~BagIn(r, inflight')
               => /\ last'.kind = r.kind /\ last'.upstream
                  /\ inflight' = inflight (-) SetToBag({r})
    /\ \A q \in BagToSet(inflight') :
           ~BagIn(q, inflight)
               => /\ last' = last
                  /\ q.ticket = arrivals
                  /\ arrivals' < arrivals
                  /\ inflight' = inflight (+) SetToBag({q})
    /\ \A r \in BagToSet(inflight) : CopiesIn(r, inflight) = 1

\* C14: a request that started an upstream call is, once that call
\* settles, answered: its handler leaves the set of waiting handlers, the
\* step in which it leaves sends the one response of that handler, and a
\* step that suspends a handler sends nothing.
EveryRequestAnswered ==
    /\ [][OneResponseEach]_vars
    /\ \A t \in 1..MaxRequests : Waiting(t) ~> ~Waiting(t)

EveryRequestAnsweredWitness ==
    /\ arrivals = 0
    /\ inflight = EmptyBag
    /\ last.upstream
    /\ last.kind = "metrics"

\* the properties a response body is built from, and those of them that
\* hold a literal, a flag or a number
DataFields == {"accounts", "metrics"}
LiteralFields ==
    {"success", "message", "error", "status", "exists", "hasRefreshToken",
     "hasDeveloperToken", "hasClientId", "hasClientSecret"}
CredentialFields == RequiredFields \cup {"managerId"}

\* every value in a response body that is not a literal, a flag or a number
Data(body) ==
    LET d == DOMAIN body IN
    (IF "accounts" \in d THEN {a.id : a \in body.accounts} ELSE {})
    \cup (IF "metrics" \in d THEN {body.metrics.customer} ELSE {})
    \cup {body[f] : f \in d \cap CredentialFields}

\* the values of a record that must stay on the server
Secrets(c) == {c[f] : f \in RequiredFields} \ {Undef, << >>}

\* the credentials the handler of this step worked with: the body of the
\* request, the record it loaded, or the record the resumed handler held
Involved ==
    {r.credentials : r \in {q \in BagToSet(inflight) : ~BagIn(q, inflight')}}
    \cup (IF last'.kind = "postCredentials" THEN {last'.request} ELSE {})
    \cup (IF last'.kind = "testConnection" /\ ~last'.upstream
          THEN {b \in Bodies : \E lib \in LibResults : TestConnectionStart(b, lib)}
          ELSE {})
    \cup (IF last'.kind \notin {"postCredentials", "testConnection"} /\ ~last'.upstream
          THEN {loadCredentials(file)} \ {Null}
          ELSE {})

\* C15: the body of a response holds no value of the clientId, the
\* clientSecret, the developerToken or the refreshToken of the request body
\* or of the stored record its handler worked with, and is built only from
\* literals, flags and account data.
NoSecretInResponse ==
    [][Responds
       => /\ DOMAIN last'.body \subseteq LiteralFields \cup DataFields
          /\ \A c \in Involved : Data(last'.body) \cap Secrets(c) = {}]_vars

NoSecretInResponseWitness ==
    /\ last.kind = "testConnection"
    /\ last.status = 200
    /\ loadCredentials(file) = RecB
    /\ Data(last.body) # {}

\* C19: in every state of the server, the record that loadCredentials()
\* returns, if it returns one, holds a non-empty clientId, clientSecret,
\* developerToken and refreshToken.
StoredRecordIsComplete ==
    LET credentials == loadCredentials(file) IN
    credentials # Null => ~LacksRequired(credentials)

StoredRecordIsCompleteWitness ==
    /\ loadCredentials(file) = RecB
    /\ last.kind = "testConnection"
    /\ last.status = 500
    /\ last.upstream

\* C20: POST /api/test-connection writes the store only in the step that
\* follows the return of listAccessibleCustomers(), and then stores the
\* credentials of its body; a request that fails the validation, fails to
\* build its client, or whose upstream call rejects leaves the file as it is.
TestConnectionSavesOnSuccess ==
    [][last'.kind = "testConnection" /\ Responds
       => /\ (~last'.upstream \/ last'.outcome \in Rejected)
             => UNCHANGED << file, lastWrite >>
          /\ (last'.upstream /\ last'.outcome \in Resolved)
             => \E r \in BagToSet(inflight) :
                   /\ r.kind = "testConnection"
                   /\ inflight' = inflight (-) SetToBag({r})
                   /\ \/ loadCredentials(file') = r.credentials
                      \/ file' = file]_vars

TestConnectionSavesOnSuccessWitness ==
    /\ last.kind = "testConnection"
    /\ last.status = 200
    /\ loadCredentials(file) = RecA
    /\ lastWrite = RecA

\* C22 as claimed: the metrics a GET /api/metrics/:accountId returns are
\* those of the customer named in the path, so that requests for different
\* accounts query different customers.
MetricsOfPathAccount ==
    [][(Responds /\ last'.kind = "metrics" /\ last'.status = 200)
       => \E r \in BagToSet(inflight) :
             /\ r.kind = "metrics"
             /\ inflight' = inflight (-) SetToBag({r})
             /\ last'.body.metrics.customer = r.accountId]_vars

(***************************************************************************)
(* Properties of the cross-origin policy (checked under CorsSpec).         *)
(***************************************************************************)
\* the step runs a route handler
Routes == UNCHANGED gate

\* C16 as claimed: the handler of a request runs only if the request has no
\* Origin header or an Origin of the allow-list; it runs for every such
\* request that is not a preflight.
OriginPolicy ==
    [][/\ Routes => gate.origin \in AllowList \cup {NoOrigin}
       /\ (~Routes /\ gate'.method # "OPTIONS"
             /\ gate'.origin \in AllowList \cup {NoOrigin}) => gate'.next]_vars

\* a handler has run for a request with an Origin outside the list
ForeignOriginRouted ==
    /\ gate.origin \notin AllowList \cup {NoOrigin}
    /\ last.kind = "postCredentials"
    /\ last.status = 200

(***************************************************************************)
(* Properties of the frontend service (checked under FrontSpec).           *)
(***************************************************************************)
\* the step is a call of a data method
Fetches == fetched'.method \in DataMethods /\ UNCHANGED service

\* C18: each of the four data methods resolves with a dataset and never
\* rejects; it sends at most one HTTP request; and when the request failed,
\* no account is selected or the service is not connected, the dataset is
\* the one of the mock client.
FallbackToMock ==
    [][Fetches
       => /\ fetched'.settled = "resolved"
          /\ fetched'.dataset.source \in {"mock", "real"}
          /\ fetched'.requests <= 1
          /\ (\/ fetched'.http \in {"status500", "network"}
              \/ Falsy(service.selectedAccountId)
              \/ ~service.isConnected)
             => fetched'.dataset = MockDataset(fetched'.method, fetched'.period)]_vars

FallbackToMockWitness ==
    /\ fetched.method = "getMetricsOverview"
    /\ fetched.http = "status500"
    /\ fetched.requests = 1
    /\ fetched.dataset.source = "mock"
    /\ service.isConnected

\* C26: isConnected is false at first; it turns true only in a
\* testConnection whose fetchAccounts() reported success; a failed test
\* leaves it false; while it is true lastConnectionCheck is set; and a data
\* method sends a request only when credentials are available and the
\* service is connected
ConnectedOnlyAfterTest ==
    [][/\ (service'.isConnected /\ ~service.isConnected) => ServiceTestConnection(TRUE)
       /\ ServiceTestConnection(FALSE) => ~service'.isConnected
       /\ service.isConnected => service.lastConnectionCheck = "Date"
       /\ service'.isConnected => service'.lastConnectionCheck = "Date"
       /\ NewService.isConnected = FALSE
       /\ (Fetches /\ fetched'.requests > 0)
             => hasApiCredentialsSync(service) /\ service.isConnected]_vars

\* a failed test after a successful one: not connected, the check is dated
ConnectedOnlyAfterTestWitness ==
    /\ ~service.isConnected /\ service.lastConnectionCheck = "Date"
    /\ fetched.dataset.source = "real"

(***************************************************************************)
(* Properties of the frontend's sessions (checked under SessionSpec).      *)
(***************************************************************************)
\* the step is a call of the cache that the server answered as wanted
SavedOk == browser'.op = "cacheSave" /\ browser'.ret
ClearedOk == browser'.op = "cacheClear" /\ browser'.ret
CheckedExists ==
    /\ browser'.op \in {"cacheGet", "loadCredentials"}
    /\ browser'.asked /\ browser'.value = Placeholder
\* the state of the cache
Cache(s) == << s.cached, s.isLoaded >>

\* C25: hasCredentialsSync() is false at first; a step that changes the
\* cache and leaves hasCredentialsSync() true is a successful save or a
\* check that the server answered with exists:true; a failed save and a
\* failed clear leave the cache as it was; after a successful clear
\* hasCredentialsSync() is false.
CacheFollowsServer ==
    [][/\ ~hasCredentialsSync(NewService)
       /\ (Cache(service') # Cache(service) /\ hasCredentialsSync(service'))
             => SavedOk \/ CheckedExists
       /\ (browser'.op \in {"cacheSave", "cacheClear"} /\ ~browser'.ret)
             => Cache(service') = Cache(service)
       /\ ClearedOk => ~hasCredentialsSync(service')]_vars

\* a save failed after a successful clear: nothing is cached although the
\* cache was filled before
CacheFollowsServerWitness ==
    /\ browser = [op |-> "cacheSave", ret |-> FALSE]
    /\ service.isLoaded /\ service.cached = Null
    /\ last.kind = "deleteCredentials" /\ last.status = 200

\* the step constructs GoogleAdsService
ServiceStarts ==
    \E netGet \in NetResults, netPost \in NetResults, iv \in SomeIVs, fs \in FsResults :
       NewGoogleAdsService(netGet, netPost, iv, fs)

\* C21 as claimed: constructing GoogleAdsService leaves the record the
\* server stores as the user saved it, and never stores the placeholder.
StartKeepsStoredRecord ==
    [][ServiceStarts
       => /\ loadCredentials(file') = loadCredentials(file)
          /\ loadCredentials(file') # Placeholder]_vars

(***************************************************************************)
(* Properties of ClientsService (checked under ClientsSpec).               *)
(***************************************************************************)
\* C27 as claimed: no two clients of ClientsService have the same id, so
\* that getClientById(id) identifies at most one client.
ClientIdsUnique ==
    \A i, j \in 1 .. Len(clients) : clients[i].id = clients[j].id => i = j

\* the two lists the dashboard shows
Lists(cs) == << getClients(cs, FALSE), getArchivedClients(cs) >>
\* every client of cs is in exactly one of the two lists
Partitioned(cs) ==
    LET active == getClients(cs, FALSE)
        archived == getArchivedClients(cs)
    IN \A i \in 1 .. Len(cs) :
          (\E k \in 1 .. Len(active) : active[k] = cs[i])
             # (\E k \in 1 .. Len(archived) : archived[k] = cs[i])
\* the step sets the flag of the client that getClientById(id) finds to b
\* and changes nothing else
SetsOnlyFlag(id, b) ==
    IF findIndex(clients, id) = 0 THEN clients' = clients
    ELSE clients' = [clients EXCEPT ![findIndex(clients, id)].isArchived = b]
\* the step is a call with this id that reports that no client was found
\* and leaves the clients as they were
NothingFound == ~called'.found /\ clients' = clients
\* what archive, unarchive, update and delete do: the flag alone changes,
\* a second call changes nothing, an unknown id changes nothing
FlagOperations ==
    /\ Partitioned(clients')
    /\ called'.op = "archiveClient"
          => \A id \in ClientIds :
                ArchiveClient(id)
                   => /\ SetsOnlyFlag(id, TRUE)
                      /\ archiveClient(clients', id).clients = clients'
                      /\ findIndex(clients, id) = 0 => NothingFound
    /\ called'.op = "unarchiveClient"
          => \A id \in ClientIds :
                UnarchiveClient(id)
                   => /\ SetsOnlyFlag(id, FALSE)
                      /\ unarchiveClient(clients', id).clients = clients'
                      /\ findIndex(clients, id) = 0 => NothingFound
    /\ called'.op = "deleteClient"
          => \A id \in ClientIds :
                (findIndex(clients, id) = 0 /\ DeleteClient(id)) => NothingFound
    /\ called'.op = "updateClient"
          => \A id \in ClientIds, updates \in ClientUpdates :
                (findIndex(clients, id) = 0 /\ UpdateClient(id, updates)) => NothingFound

\* C28 as claimed: the active and the archived clients partition the
\* clients; archiveClient and unarchiveClient change only the flag of that
\* client and are idempotent; an unarchiveClient(id) after an
\* archiveClient(id) restores the lists as they were before the two; and
\* the four operations on an unknown id report failure and change nothing.
ArchiveRoundTrip ==
    [][/\ FlagOperations
       /\ called'.op = "archiveClient"
             => \A id \in ClientIds :
                   ArchiveClient(id)
                      => Lists(unarchiveClient(clients', id).clients) = Lists(clients)]_vars

\* C28 as amended: as claimed, but the unarchiveClient(id) after the
\* archiveClient(id) restores the earlier lists when the client was active
\* before the two (or is unknown); a client that was archived before is
\* active after them.
ArchiveRoundTripOfActive ==
    [][/\ FlagOperations
       /\ called'.op = "archiveClient"
             => \A id \in ClientIds :
                   ArchiveClient(id)
                      => IF getClientById(clients, id) # Undefined
                            /\ getClientById(clients, id).isArchived
                         THEN /\ Lists(unarchiveClient(clients', id).clients)
                                     # Lists(clients)
                              /\ ~getClientById(unarchiveClient(clients', id).clients,
                                                id).isArchived
                         ELSE Lists(unarchiveClient(clients', id).clients)
                                 = Lists(clients)]_vars

\* an edited client was archived while the list was full
ArchiveRoundTripOfActiveWitness ==
    /\ called = Call("archiveClient", TRUE)
    /\ Len(clients) = MaxClients
    /\ \E i \in 1 .. Len(clients) : clients[i].isArchived /\ clients[i].name = "Edited"
    /\ \E i \in 1 .. Len(clients) : ~clients[i].isArchived

(***************************************************************************)
(* Properties of ClientList (checked under ListSpec).                      *)
(***************************************************************************)
\* C29 as claimed: after a merge, the entry of the list with the id of a
\* fetched account is that account, also when a client has the same id, and
\* no two entries of the list have the same id.
MergePrefersRealAccounts ==
    [][\A accounts \in AccountLists :
          (accounts # << >> /\ FetchRealAccounts(TRUE, accounts))
          => /\ \A i \in 1 .. Len(listed'), k \in 1 .. Len(accounts) :
                   listed'[i].id = accounts[k].id => listed'[i].isGoogleAdsAccount
             /\ \A i, j \in 1 .. Len(listed') :
                   listed'[i].id = listed'[j].id => i = j]_vars

(***************************************************************************)
(* Properties of the App component (checked under AppSpec).                *)
(***************************************************************************)
\* the stored credentials a load authenticates with: a record is stored and
\* each of its four required properties is non-empty
StoredAndComplete(item) ==
    /\ item # NoItem
    /\ credentialsService_getCredentials(item) # Null
    /\ ~LacksRequired(credentialsService_getCredentials(item))

\* C24: a load authenticates without a login exactly when credentials are
\* stored and their four required properties are non-empty, and otherwise
\* shows the login form; handleLogout removes the credentials and the
\* userRole item, and the load that follows it does not authenticate and
\* shows the login form
AutoLoginNeedsCredentials ==
    [][/\ AppLoad => /\ app'.isAuthenticated <=> StoredAndComplete(storage)
                     /\ ~app'.isAuthenticated => Shows(app') = "LoginForm"
       /\ handleLogout => /\ storage' = NoItem
                          /\ app'.userRole = "none"
       /\ (AppLoad /\ app.event = "logout" /\ browser.op = "clear")
             => /\ ~app'.isAuthenticated
                /\ Shows(app') = "LoginForm"]_vars

\* a load after a logout that removed complete credentials shows the login
\* form
AutoLoginNeedsCredentialsWitness ==
    /\ app.event = "load" /\ ~app.isAuthenticated /\ Shows(app) = "LoginForm"
    /\ browser = [op |-> "clear", had |-> TRUE]
    /\ storage = NoItem

(***************************************************************************)
(* Properties of the browser's store (checked under BrowserSpec).          *)
(***************************************************************************)
\* C23: getCredentials() after a successful saveCredentials(c) returns c, for
\* every record of the model (all of whose characters are single bytes);
\* salting a character twice gives the character back, and the two digits
\* written for a salted character parse to it.
BrowserRoundTrip ==
    [][(browser'.op = "get" /\ browser.op = "save" /\ browser.saved /\ LocalGet)
       => /\ \E c \in BrowserRecords :
                /\ storage = credentialsService_saveCredentials(NoItem, c, "ok").item
                /\ browser'.credentials = c
          /\ \A c \in BrowserRecords :
                credentialsService_decrypt(credentialsService_encrypt(Stringify(c)))
                    = Stringify(c)
          /\ \A n \in Byte :
                /\ applySaltToChar(applySaltToChar(n)) = n
                /\ ParseChunk(byteHex(applySaltToChar(n))) = applySaltToChar(n)]_vars

BrowserRoundTripWitness ==
    /\ browser.op = "get"
    /\ browser.credentials = RecB
    /\ storage = credentialsService_saveCredentials(NoItem, RecB, "ok").item

(***************************************************************************)
(* Properties of clearing (checked under BrowserSpec).                     *)
(***************************************************************************)
\* C11: clearing is not an error when nothing is stored, leaves nothing
\* stored, and clearing what a clear left changes nothing; after a clear the
\* store reports that no credentials exist.  This is stated of the browser's
\* clearCredentials() and of DELETE /api/credentials.
ClearIsIdempotent ==
    [][/\ (browser'.op = "clear" /\ LocalClear)
          => /\ storage' = NoItem
             /\ ~credentialsService_hasCredentials(storage')
             /\ credentialsService_getCredentials(storage') = Null
             /\ credentialsService_clearCredentials(storage') = storage'
       /\ \A fs \in FsResults :
             Deletes(fs)
             => /\ file = Absent => (Sent("deleteCredentials", 200) /\ file' = file)
                /\ last'.status = 200
                   => /\ file' = Absent
                      /\ ~CredentialsStatus(loadCredentials(file')).exists
                      /\ clearCredentials(file', fs).file = file']_vars

\* the browser cleared with nothing stored, and the server answered a DELETE
\* with success while a record had been cleared before
ClearIsIdempotentWitness ==
    /\ browser.op = "clear" /\ ~browser.had /\ storage = NoItem
    /\ DeletedOk /\ file = Absent /\ lastWrite = Null

====
